---- MODULE Spec2Model ----
(***************************************************************************)
(* A model of vecna's core: the Vault (src/vecna/core/vault.py), the       *)
(* record types (src/vecna/models.py), the session manager                 *)
(* (src/vecna/core/session.py) and the files they share.                   *)
(*                                                                         *)
(* Conventions.  An optional Python value (x | None) is a sequence of      *)
(* length 0 (None) or 1 (the value).  A file is an optional value: absent  *)
(* or its content.  os.urandom is a source of values never drawn before    *)
(* (a counter).  PBKDF2 and AES-GCM are ideal: a key is the pair           *)
(* <<password, salt>> it was derived from, a ciphertext is the triple      *)
(* (key, nonce, plaintext) it was sealed from and opens only under that    *)
(* key and nonce.  A dict is a function on its key set (dict equality      *)
(* does not depend on insertion order).                                    *)
(***************************************************************************)
EXTENDS Integers, Sequences, FiniteSets, TLC

VARIABLES
    vaultFile,    \* VAULT_FILE: absent, or the envelope salt || nonce || ciphertext
    keyFile,      \* KEY_CACHE_FILE: absent, or the raw derived key
    inst,         \* per process: the fields of its Vault object
    urandom,      \* number of values os.urandom has returned so far
    last,         \* the call that was made last, with its arguments and outcome
    calls,        \* number of Vault calls made so far
    createdWith,  \* history: salt -> the password given to the create() that drew it
    sessionFile,  \* SESSION_FILE: absent, or the JSON document in it
    now,          \* the clock datetime.now() reads, in seconds
    sessionStart, \* history: the time of the create_session() that wrote sessionFile
    mode,         \* the permission bits of VAULT_FILE, KEY_CACHE_FILE and SESSION_FILE
    path,         \* a file that the functions of utils/secure_file.py are called on
    pend,         \* per process: the secure_file call it is in, and the line it is at
    umask,        \* the file mode creation mask of the processes
    cmd,          \* the command of the CLI that is running, and where it is
    ret           \* what the call made last returned (None: nothing)

vaultVars == <<vaultFile, keyFile, inst, urandom, calls, createdWith>>
sessionVars == <<sessionFile, now, sessionStart>>
fsVars == <<path, pend, umask>>
vars == <<vaultFile, keyFile, inst, urandom, last, calls, createdWith,
          sessionFile, now, sessionStart, mode, path, pend, umask, cmd, ret>>
cliVars == <<cmd, ret>>

(***************************************************************************)
(* Bounds and input sets                                                   *)
(***************************************************************************)
MaxDraws == 4
MaxCalls == 6
MaxPeriods == 3
MaxCommands == 2

Procs == {"p1", "p2"}
Names == {"a", "b"}
Passwords == {"P", "Q"}

None == <<>>
Some(x) == <<x>>
IsNone(o) == Len(o) = 0
Val(o) == o[1]

EmptyDict == [k \in {} |-> k]
Put(d, k, v) == [x \in (DOMAIN d) \cup {k} |-> IF x = k THEN v ELSE d[x]]
Pop(d, k) == [x \in (DOMAIN d) \ {k} |-> d[x]]

(***************************************************************************)
(* models.py                                                               *)
(***************************************************************************)
\* Credential(name, username, password, notes="", tags=None)
Credential(name, username, password, notes, tags) ==
    [name |-> name, username |-> username, password |-> password,
     notes |-> notes, tags |-> tags]

\* Alias(name, command, notes="", tags=None)
Alias(name, command, notes, tags) ==
    [name |-> name, command |-> command, notes |-> notes, tags |-> tags]

\* A keyword argument of a constructor call, or the field's default.
Kw(kw, f, default) == IF f \in DOMAIN kw THEN kw[f] ELSE default

\* UpdateCredential(name=..., and keywords kw): the dataclass defaults of the fields the
\* caller leaves out are new_name=None, username=None, password=None,
\* tags=None and, inherited from Credential, notes="".
UpdateCredentialOf(name, kw) ==
    [name |-> name,
     username |-> Kw(kw, "username", None),
     password |-> Kw(kw, "password", None),
     notes |-> Kw(kw, "notes", Some("")),
     tags |-> Kw(kw, "tags", None),
     new_name |-> Kw(kw, "new_name", None)]

\* UpdateAlias(name=..., and keywords kw): command=None, new_name=None, tags=None, notes="".
UpdateAliasOf(name, kw) ==
    [name |-> name,
     command |-> Kw(kw, "command", None),
     notes |-> Kw(kw, "notes", Some("")),
     tags |-> Kw(kw, "tags", None),
     new_name |-> Kw(kw, "new_name", None)]

\* VaultData(): two empty dicts.
VaultData(credentials, aliases) == [credentials |-> credentials, aliases |-> aliases]
EmptyVaultData == VaultData(EmptyDict, EmptyDict)

(***************************************************************************)
(* JSON: model_dump_json (asdict, json.dumps) and its inverse in           *)
(* _decrypt_data (json.loads, then the VaultData, Credential and Alias     *)
(* constructors).                                                          *)
(* A JSON value is <<"null">>, <<"str", s>>, <<"list", seq>> or            *)
(* <<"obj", function>>.                                                    *)
(***************************************************************************)
JNull == <<"null">>
JStr(s) == <<"str", s>>
JList(l) == <<"list", l>>
JObj(o) == <<"obj", o>>
JOptStr(o) == IF IsNone(o) THEN JNull ELSE JStr(Val(o))
JOptList(o) == IF IsNone(o) THEN JNull ELSE JList(Val(o))
\* Mutant: a field read back as None when it is null or empty.
OptOfJOrNone(j) ==
    IF j[1] = "null" \/ (j[1] = "str" /\ j[2] = "") \/ (j[1] = "list" /\ j[2] = <<>>)
    THEN None ELSE Some(j[2])

OptOfJ(j) == IF j[1] = "null" THEN None ELSE Some(j[2])

DumpCredential(c) ==
    JObj([name |-> JStr(c.name), username |-> JStr(c.username),
          password |-> JStr(c.password), notes |-> JOptStr(c.notes),
          tags |-> JOptList(c.tags)])

DumpAlias(a) ==
    JObj([name |-> JStr(a.name), command |-> JStr(a.command),
          notes |-> JOptStr(a.notes), tags |-> JOptList(a.tags)])

\* Mutant: the dump leaves the aliases out.
model_dump_json_without_aliases(d) ==
    JObj([credentials |-> JObj([k \in DOMAIN d.credentials |-> DumpCredential(d.credentials[k])]),
          aliases |-> JObj(EmptyDict)])

model_dump_json(d) ==
    JObj([credentials |-> JObj([k \in DOMAIN d.credentials |-> DumpCredential(d.credentials[k])]),
          aliases |-> JObj([k \in DOMAIN d.aliases |-> DumpAlias(d.aliases[k])])])

ParseCredential(j) ==
    Credential(j[2].name[2], j[2].username[2], j[2].password[2],
               OptOfJ(j[2].notes), OptOfJ(j[2].tags))

ParseAlias(j) ==
    Alias(j[2].name[2], j[2].command[2], OptOfJ(j[2].notes), OptOfJ(j[2].tags))

ParseVaultData(j) ==
    VaultData([k \in DOMAIN j[2].credentials[2] |-> ParseCredential(j[2].credentials[2][k])],
              [k \in DOMAIN j[2].aliases[2] |-> ParseAlias(j[2].aliases[2][k])])

(***************************************************************************)
(* Key derivation and AES-GCM                                              *)
(***************************************************************************)
\* _derive_key: PBKDF2HMAC(salt=self.salt).derive(password)
DeriveKey(password, salt) == <<password, salt>>

\* AESGCM(key).encrypt(nonce, plaintext, None)
AesGcmEncrypt(key, nonce, plaintext) == [key |-> key, nonce |-> nonce, pt |-> plaintext]

\* AESGCM(key).decrypt(nonce, ciphertext, None): the plaintext, or None for InvalidTag
AesGcmDecrypt(key, nonce, ct) ==
    IF ct.key = key /\ ct.nonce = nonce THEN Some(ct.pt) ELSE None

\* The envelope _store_vault_to_disk writes and load() splits again.
Envelope(salt, nonce, ct) == [salt |-> salt, nonce |-> nonce, ct |-> ct]

(***************************************************************************)
(* utils/secure_file.py                                                    *)
(* A file is absent (None) or has a mode and a content.  A mode is the set *)
(* of its permission bits (owner, group, other; read, write).  A call is   *)
(* followed line by line: the position is the number of the source line    *)
(* that runs next, 0 once the call has returned or raised.                 *)
(***************************************************************************)
\* 0o600 and 0o400, and the 0o666 that open() creates a file with before the
\* umask is taken off
OwnerReadWrite == {"ur", "uw"}
OwnerRead == {"ur"}
OpenCreateMode == {"ur", "uw", "gr", "gw", "or", "ow"}
GroupOther == {"gr", "gw", "or", "ow"}

\* The umasks 022, 027 and 077
Umask022 == {"gw", "ow"}
Umask027 == {"gw", "or", "ow"}
Umasks == {Umask022, Umask027, GroupOther}

File(m, data) == Some([mode |-> m, data |-> data])

\* os.chmod(file_path, m) on a file that exists
Chmod(f, m) == Some([Val(f) EXCEPT !.mode = m])

\* Where a line leaves the call: at the next line, or returned / raised.
Goto(f, pc, buf) == [f |-> f, pc |-> pc, buf |-> buf, res |-> "ok"]
Ret(f, buf, res) == [f |-> f, pc |-> 0, buf |-> buf, res |-> res]

\* One line of read_secure_file (16..23), write_secure_file (41..47) or
\* delete_secure_file (62..66), run on the file f; buf is what was read so far,
\* data what is to be written, um the umask.
SecureFileStep(pc, f, buf, data, um) ==
    CASE pc = 16 -> IF IsNone(f) THEN Ret(f, None, "ok") ELSE Goto(f, 19, buf)
      [] pc = 19 -> IF IsNone(f) THEN Ret(f, buf, "FileNotFoundError")
                    ELSE Goto(Chmod(f, OwnerReadWrite), 20, buf)
      [] pc = 20 -> IF IsNone(f) THEN Ret(f, buf, "FileNotFoundError")
                    ELSE IF "ur" \notin Val(f).mode THEN Ret(f, buf, "PermissionError")
                    ELSE Goto(f, 21, buf)
      [] pc = 21 -> Goto(f, 23, IF IsNone(f) THEN None ELSE Some(Val(f).data))
      [] pc = 23 -> IF IsNone(f) THEN Ret(f, buf, "FileNotFoundError")
                    ELSE Ret(Chmod(f, OwnerRead), buf, "ok")
      [] pc = 41 -> Goto(f, IF IsNone(f) THEN 44 ELSE 42, buf)
      [] pc = 42 -> IF IsNone(f) THEN Ret(f, buf, "FileNotFoundError")
                    ELSE Goto(Chmod(f, OwnerReadWrite), 44, buf)
      [] pc = 44 -> IF IsNone(f) THEN Goto(File(OpenCreateMode \ um, ""), 45, buf)
                    ELSE IF "uw" \notin Val(f).mode THEN Ret(f, buf, "PermissionError")
                    ELSE Goto(File(Val(f).mode, ""), 45, buf)
      [] pc = 45 -> Goto(IF IsNone(f) THEN f ELSE File(Val(f).mode, data), 47, buf)
      [] pc = 47 -> IF IsNone(f) THEN Ret(f, buf, "FileNotFoundError")
                    ELSE Ret(Chmod(f, OwnerRead), buf, "ok")
      [] pc = 62 -> IF IsNone(f) THEN Ret(f, buf, "ok") ELSE Goto(f, 65, buf)
      [] pc = 65 -> IF IsNone(f) THEN Ret(f, buf, "FileNotFoundError")
                    ELSE Goto(Chmod(f, OwnerReadWrite), 66, buf)
      [] pc = 66 -> IF IsNone(f) THEN Ret(f, buf, "FileNotFoundError")
                    ELSE Ret(None, buf, "ok")

\* A call run from line pc to its end with nothing in between.
RECURSIVE RunSecureFile(_, _, _, _, _)
RunSecureFile(pc, f, buf, data, um) ==
    LET s == SecureFileStep(pc, f, buf, data, um)
    IN IF s.pc = 0 THEN s ELSE RunSecureFile(s.pc, s.f, s.buf, data, um)

EntryLine(op) ==
    CASE op = "read_secure_file" -> 16
      [] op = "write_secure_file" -> 41
      [] op = "delete_secure_file" -> 62

\* Mutant: the read does not narrow the mode again.
read_secure_file_without_restore(f, um) ==
    IF IsNone(f) THEN Ret(f, None, "ok")
    ELSE Ret(Chmod(f, OwnerReadWrite), Some(Val(f).data), "ok")

\* Mutant: a delete of a missing path is an error.
delete_secure_file_strict(f, um) ==
    IF IsNone(f) THEN Ret(f, None, "FileNotFoundError") ELSE Ret(None, None, "ok")

read_secure_file(f, um) == RunSecureFile(16, f, None, None, um)
write_secure_file(f, data, um) == RunSecureFile(41, f, None, data, um)
delete_secure_file(f, um) == RunSecureFile(62, f, None, None, um)

\* VAULT_FILE, KEY_CACHE_FILE or SESSION_FILE as a file: its content and mode.
FileOf(content, m) == IF IsNone(content) THEN None ELSE File(Val(m), Val(content))

\* The mode a call leaves the file with (None: no file).
ModeAfter(r) == IF IsNone(r.f) THEN None ELSE Some(Val(r.f).mode)

NoFiles == [vault |-> None, key |-> None, session |-> None]
NoCommand == [name |-> "none", at |-> "exit", arg |-> None, code |-> 0, n |-> 0]
Idle == [op |-> "none", pc |-> 0, buf |-> None, data |-> None]

(***************************************************************************)
(* Vault                                                                   *)
(***************************************************************************)
\* Vault.__init__
NewVault == [salt |-> None, nonce |-> None, encrypted_data |-> None, data |-> EmptyVaultData]

\* _load_key: read_secure_file(KEY_CACHE_FILE), None when absent or empty
LoadKey == keyFile

\* The record of a call: what was called, by whom, with what, and how it ended
\* ("ok", or the exception raised).
Call(op, p, arg, res) == [op |-> op, p |-> p, arg |-> arg, res |-> res]

Init ==
    /\ vaultFile = None
    /\ keyFile = None
    /\ inst = [p \in Procs |-> NewVault]
    /\ urandom = 0
    /\ last = Call("init", "p1", None, "ok")
    /\ calls = 0
    /\ createdWith = EmptyDict
    /\ sessionFile = None
    /\ now = 0
    /\ sessionStart = None
    /\ mode = NoFiles
    /\ path = None
    /\ pend = [p \in Procs |-> Idle]
    /\ umask = Umask022
    /\ cmd = NoCommand
    /\ ret = None

\* Vault(): a process constructs a new Vault object (each command of the CLI does).
Construct(p) ==
    /\ inst' = [inst EXCEPT ![p] = NewVault]
    /\ last' = Call("Vault", p, None, "ok")
    /\ UNCHANGED <<vaultFile, keyFile, urandom, createdWith, mode>>

\* Mutant: create caches the key it derived.
create_caching_key(p, password) ==
    LET salt == urandom + 1
        nonce == urandom + 2
        key == DeriveKey(password, salt)
        ct == AesGcmEncrypt(key, nonce, model_dump_json(inst[p].data))
    IN /\ urandom' = urandom + 2
       /\ inst' = [inst EXCEPT ![p] = [@ EXCEPT !.salt = Some(salt), !.nonce = Some(nonce),
                                                !.encrypted_data = Some(ct)]]
       /\ vaultFile' = Some(Envelope(salt, nonce, ct))
       /\ keyFile' = Some(key)
       /\ mode' = [mode EXCEPT !.vault = Some(OwnerRead), !.key = Some(OwnerRead)]
       /\ createdWith' = Put(createdWith, salt, password)
       /\ last' = Call("create", p, password, "ok")

\* create(password)
create(p, password) ==
    LET salt == urandom + 1
        nonce == urandom + 2
        key == DeriveKey(password, salt)
        pt == model_dump_json(inst[p].data)
        ct == AesGcmEncrypt(key, nonce, pt)
    IN /\ urandom' = urandom + 2
       /\ inst' = [inst EXCEPT ![p] = [@ EXCEPT !.salt = Some(salt), !.nonce = Some(nonce),
                                                !.encrypted_data = Some(ct)]]
       /\ vaultFile' = Some(Envelope(salt, nonce, ct))
       /\ mode' = [mode EXCEPT !.vault =
                      ModeAfter(write_secure_file(FileOf(vaultFile, mode.vault),
                                                  Envelope(salt, nonce, ct), umask))]
       /\ createdWith' = Put(createdWith, salt, password)
       /\ last' = Call("create", p, password, "ok")
       /\ UNCHANGED keyFile

\* _decrypt_data(key): the VaultData decoded from the ciphertext, or None for InvalidTag
DecryptData(key, nonce, ct) ==
    LET pt == AesGcmDecrypt(key, nonce, ct)
    IN IF IsNone(pt) THEN None ELSE Some(ParseVaultData(Val(pt)))

\* Mutant: a missing key is never an error.
LoadOutcomeIgnoringFlag(v, vf, kf, raise_no_key) ==
    IF IsNone(vf)
    THEN [v |-> v, res |-> "TypeError"]
    ELSE LET env == Val(vf)
             v1 == [v EXCEPT !.salt = Some(env.salt), !.nonce = Some(env.nonce),
                             !.encrypted_data = Some(env.ct)]
         IN IF IsNone(kf)
            THEN [v |-> v1, res |-> "ok"]
            ELSE LET d == DecryptData(Val(kf), env.nonce, env.ct)
                 IN IF IsNone(d)
                    THEN [v |-> v1, res |-> "InvalidTag"]
                    ELSE [v |-> [v1 EXCEPT !.data = Val(d)], res |-> "ok"]

\* load(raise_no_key) on the Vault object v with the files vf (envelope) and kf
\* (cached key): the object afterwards and how the call ends.
LoadOutcome(v, vf, kf, raise_no_key) ==
    IF IsNone(vf)
    THEN \* read_secure_file returns None and None[:16] raises TypeError
         [v |-> v, res |-> "TypeError"]
    ELSE LET env == Val(vf)
             v1 == [v EXCEPT !.salt = Some(env.salt), !.nonce = Some(env.nonce),
                             !.encrypted_data = Some(env.ct)]
         IN IF IsNone(kf)
            THEN [v |-> v1, res |-> IF raise_no_key THEN "ValueError" ELSE "ok"]
            ELSE LET d == DecryptData(Val(kf), env.nonce, env.ct)
                 IN IF IsNone(d)
                    THEN [v |-> v1, res |-> "InvalidTag"]
                    ELSE [v |-> [v1 EXCEPT !.data = Val(d)], res |-> "ok"]

load(p, raise_no_key) ==
    LET o == LoadOutcome(inst[p], vaultFile, LoadKey, raise_no_key)
    IN /\ inst' = [inst EXCEPT ![p] = o.v]
       /\ last' = Call("load", p, raise_no_key, o.res)
       /\ mode' = [mode EXCEPT
                      !.vault = ModeAfter(read_secure_file(FileOf(vaultFile, mode.vault), umask)),
                      !.key = IF IsNone(vaultFile) THEN @
                              ELSE ModeAfter(read_secure_file(FileOf(keyFile, mode.key), umask))]
       /\ UNCHANGED <<vaultFile, keyFile, urandom, createdWith>>

\* Mutant: lock also forgets the records in memory.
lock_clearing_data(p) ==
    /\ keyFile' = None
    /\ mode' = [mode EXCEPT !.key = None]
    /\ inst' = [inst EXCEPT ![p] = [@ EXCEPT !.data = EmptyVaultData]]
    /\ last' = Call("lock", p, None, "ok")
    /\ UNCHANGED <<vaultFile, urandom, createdWith>>

\* lock(): _delete_key
lock(p) ==
    /\ keyFile' = None
    /\ mode' = [mode EXCEPT !.key = ModeAfter(delete_secure_file(FileOf(keyFile, mode.key), umask))]
    /\ last' = Call("lock", p, None, "ok")
    /\ UNCHANGED <<vaultFile, inst, urandom, createdWith>>

\* Mutant: the key is not tried on the ciphertext.
KeyIsValidUnchecked(v, key) ==
    /\ ~IsNone(v.nonce)
    /\ ~IsNone(v.encrypted_data)

\* _key_is_valid(key)
KeyIsValid(v, key) ==
    /\ ~IsNone(v.nonce)
    /\ ~IsNone(v.encrypted_data)
    /\ ~IsNone(AesGcmDecrypt(key, Val(v.nonce), Val(v.encrypted_data)))

\* Mutant: the key is cached before it is tried.
unlock_caching_first(p, password) ==
    /\ UNCHANGED <<vaultFile, inst, urandom, createdWith>>
    /\ IF IsNone(inst[p].salt)
       THEN /\ last' = Call("unlock", p, password, "TypeError")
            /\ UNCHANGED <<keyFile, mode>>
       ELSE LET key == DeriveKey(password, Val(inst[p].salt))
            IN /\ keyFile' = Some(key)
               /\ mode' = [mode EXCEPT !.key =
                              ModeAfter(write_secure_file(FileOf(keyFile, mode.key), key, umask))]
               /\ last' = Call("unlock", p, password,
                               IF KeyIsValid(inst[p], key) THEN "ok" ELSE "ValueError")

\* Mutant: a successful unlock starts the object's VaultData afresh.
unlock_resetting_data(p, password) ==
    /\ UNCHANGED <<vaultFile, urandom, createdWith>>
    /\ IF IsNone(inst[p].salt)
       THEN /\ last' = Call("unlock", p, password, "TypeError")
            /\ UNCHANGED <<keyFile, mode, inst>>
       ELSE LET key == DeriveKey(password, Val(inst[p].salt))
            IN IF KeyIsValid(inst[p], key)
               THEN /\ keyFile' = Some(key)
                    /\ mode' = [mode EXCEPT !.key = Some(OwnerRead)]
                    /\ inst' = [inst EXCEPT ![p] = [@ EXCEPT !.data = EmptyVaultData]]
                    /\ last' = Call("unlock", p, password, "ok")
               ELSE /\ last' = Call("unlock", p, password, "ValueError")
                    /\ UNCHANGED <<keyFile, mode, inst>>

\* unlock(password)
unlock(p, password) ==
    /\ UNCHANGED <<vaultFile, inst, urandom, createdWith>>
    /\ IF IsNone(inst[p].salt)
       THEN \* PBKDF2HMAC(salt=None) raises TypeError
            /\ last' = Call("unlock", p, password, "TypeError")
            /\ UNCHANGED <<keyFile, mode>>
       ELSE LET key == DeriveKey(password, Val(inst[p].salt))
            IN IF KeyIsValid(inst[p], key)
               THEN /\ keyFile' = Some(key)
                    /\ mode' = [mode EXCEPT !.key =
                                   ModeAfter(write_secure_file(FileOf(keyFile, mode.key), key, umask))]
                    /\ last' = Call("unlock", p, password, "ok")
               ELSE /\ last' = Call("unlock", p, password, "ValueError")
                    /\ UNCHANGED <<keyFile, mode>>


\* The tail of every mutating operation, after self.data has been changed to d:
\*     key = self._load_key(); self._encrypt_data(key); self._store_vault_to_disk()
\* AESGCM(None), and encrypt() with a nonce of None, raise TypeError; self.data
\* stays changed.
Persist(p, d, op, arg) ==
    LET v == inst[p]
        key == LoadKey
    IN /\ UNCHANGED <<keyFile, urandom, createdWith>>
       /\ IF IsNone(key) \/ IsNone(v.nonce)
          THEN /\ inst' = [inst EXCEPT ![p] = [v EXCEPT !.data = d]]
               /\ last' = Call(op, p, arg, "TypeError")
               /\ mode' = [mode EXCEPT !.key =
                              ModeAfter(read_secure_file(FileOf(keyFile, mode.key), umask))]
               /\ UNCHANGED vaultFile
          ELSE LET pt == model_dump_json(d)
                   ct == AesGcmEncrypt(Val(key), Val(v.nonce), pt)
                   env == Envelope(Val(v.salt), Val(v.nonce), ct)
               IN /\ inst' = [inst EXCEPT ![p] = [v EXCEPT !.data = d, !.encrypted_data = Some(ct)]]
                  /\ vaultFile' = Some(env)
                  /\ mode' = [mode EXCEPT
                                 !.key = ModeAfter(read_secure_file(FileOf(keyFile, mode.key), umask)),
                                 !.vault = ModeAfter(write_secure_file(FileOf(vaultFile, mode.vault),
                                                                       env, umask))]
                  /\ last' = Call(op, p, arg, "ok")

\* A raise before anything was changed.
Raise(p, op, arg, exc) ==
    /\ last' = Call(op, p, arg, exc)
    /\ UNCHANGED <<vaultFile, keyFile, inst, urandom, createdWith, mode>>

\* Mutant: no check that the name is free.
add_credential_unchecked(p, c) ==
    Persist(p, [inst[p].data EXCEPT !.credentials = Put(@, c.name, c)], "add_credential", c)

\* Mutant: the envelope is read again before the record is added.
add_credential_reloading(p, c) ==
    LET d == LoadOutcome(inst[p], vaultFile, LoadKey, TRUE).v.data
    IN IF c.name \in DOMAIN d.credentials
       THEN Raise(p, "add_credential", c, "KeyError")
       ELSE Persist(p, [d EXCEPT !.credentials = Put(@, c.name, c)], "add_credential", c)

\* Mutant: one namespace for credentials and aliases: a name taken by an alias
\* is taken.
add_credential_one_namespace(p, c) ==
    LET d == inst[p].data
    IN IF c.name \in DOMAIN d.credentials \cup DOMAIN d.aliases
       THEN Raise(p, "add_credential", c, "KeyError")
       ELSE Persist(p, [d EXCEPT !.credentials = Put(@, c.name, c)], "add_credential", c)

\* add_credential(credential)
add_credential(p, c) ==
    LET d == inst[p].data
    IN IF c.name \in DOMAIN d.credentials
       THEN Raise(p, "add_credential", c, "KeyError")
       ELSE Persist(p, [d EXCEPT !.credentials = Put(@, c.name, c)], "add_credential", c)

\* Mutant: a delete of a name that is not there returns after sealing.
delete_credential_lenient(p, name) ==
    LET d == inst[p].data
    IN Persist(p, [d EXCEPT !.credentials = Pop(@, name)], "delete_credential", name)

\* delete_credential(name)
delete_credential(p, name) ==
    LET d == inst[p].data
    IN IF name \notin DOMAIN d.credentials
       THEN Raise(p, "delete_credential", name, "KeyError")
       ELSE Persist(p, [d EXCEPT !.credentials = Pop(@, name)], "delete_credential", name)

\* The rename of update_*: dict[new_name] = dict.pop(name)
Rekey(dict, name, new_name) ==
    IF IsNone(new_name) THEN dict ELSE Put(Pop(dict, name), Val(new_name), dict[name])

\* The name the descriptor carries after the rename (name = new_name).
TargetName(u) == IF IsNone(u.new_name) THEN u.name ELSE Val(u.new_name)

\* Mutant: the loop skips every value that is falsy (None, "" and []).
SetCredentialFieldsIfTruthy(rec, u) ==
    [name |-> IF IsNone(u.new_name) THEN u.name ELSE Val(u.new_name),
     username |-> IF IsNone(u.username) \/ u.username = Some("") THEN rec.username
                  ELSE Val(u.username),
     password |-> IF IsNone(u.password) \/ u.password = Some("") THEN rec.password
                  ELSE Val(u.password),
     notes |-> IF IsNone(u.notes) \/ u.notes = Some("") THEN rec.notes ELSE u.notes,
     tags |-> IF IsNone(u.tags) \/ u.tags = Some(<<>>) THEN rec.tags ELSE u.tags]

\* setattr(record, field, value) for every field of model_dump() that is not None
\* (new_name is None by then).
SetCredentialFields(rec, u) ==
    [name |-> TargetName(u),
     username |-> IF IsNone(u.username) THEN rec.username ELSE Val(u.username),
     password |-> IF IsNone(u.password) THEN rec.password ELSE Val(u.password),
     notes |-> IF IsNone(u.notes) THEN rec.notes ELSE u.notes,
     tags |-> IF IsNone(u.tags) THEN rec.tags ELSE u.tags]

\* Mutant: the rename moves the record and leaves its name field.
SetAliasFieldsKeepingName(rec, u) ==
    [name |-> rec.name,
     command |-> IF IsNone(u.command) THEN rec.command ELSE Val(u.command),
     notes |-> IF IsNone(u.notes) THEN rec.notes ELSE u.notes,
     tags |-> IF IsNone(u.tags) THEN rec.tags ELSE u.tags]

SetAliasFields(rec, u) ==
    [name |-> TargetName(u),
     command |-> IF IsNone(u.command) THEN rec.command ELSE Val(u.command),
     notes |-> IF IsNone(u.notes) THEN rec.notes ELSE u.notes,
     tags |-> IF IsNone(u.tags) THEN rec.tags ELSE u.tags]

\* update_credential(credential)
update_credential(p, name, kw) ==
    LET d == inst[p].data
        u == UpdateCredentialOf(name, kw)
        arg == [name |-> name, kw |-> kw]
    IN IF u.name \notin DOMAIN d.credentials
       THEN Raise(p, "update_credential", arg, "KeyError")
       ELSE LET renamed == Rekey(d.credentials, u.name, u.new_name)
                t == TargetName(u)
                updated == [renamed EXCEPT ![t] = SetCredentialFields(renamed[t], u)]
            IN Persist(p, [d EXCEPT !.credentials = updated], "update_credential", arg)

\* add_alias(alias)
add_alias(p, a) ==
    LET d == inst[p].data
    IN IF a.name \in DOMAIN d.aliases
       THEN Raise(p, "add_alias", a, "KeyError")
       ELSE Persist(p, [d EXCEPT !.aliases = Put(@, a.name, a)], "add_alias", a)

\* delete_alias(name)
delete_alias(p, name) ==
    LET d == inst[p].data
    IN IF name \notin DOMAIN d.aliases
       THEN Raise(p, "delete_alias", name, "KeyError")
       ELSE Persist(p, [d EXCEPT !.aliases = Pop(@, name)], "delete_alias", name)

\* Mutant: an update seals the VaultData whether or not its target is there.
update_alias_lenient(p, name, kw) ==
    Persist(p, inst[p].data, "update_alias", [name |-> name, kw |-> kw])

\* update_alias(alias)
update_alias(p, name, kw) ==
    LET d == inst[p].data
        u == UpdateAliasOf(name, kw)
        arg == [name |-> name, kw |-> kw]
    IN IF u.name \notin DOMAIN d.aliases
       THEN Raise(p, "update_alias", arg, "KeyError")
       ELSE LET renamed == Rekey(d.aliases, u.name, u.new_name)
                t == TargetName(u)
                updated == [renamed EXCEPT ![t] = SetAliasFields(renamed[t], u)]
            IN Persist(p, [d EXCEPT !.aliases = updated], "update_alias", arg)

\* list(dict.values()): what the list holds, as a bag (the records, and how often
\* each occurs); the order of the list is the order of insertion, which a dict
\* taken as a function does not keep.
ListOfValues(dict) ==
    [r \in {dict[k] : k \in DOMAIN dict} |-> Cardinality({k \in DOMAIN dict : dict[k] = r})]

\* get_credential(name)
get_credential(p, name) ==
    /\ ret' = IF name \notin DOMAIN inst[p].data.credentials THEN None
              ELSE Some(inst[p].data.credentials[name])
    /\ last' = Call("get_credential", p, name, "ok")
    /\ UNCHANGED <<vaultFile, keyFile, inst, urandom, createdWith, mode>>

\* Mutant: the list of an empty mapping is an error.
list_credentials_nonempty(p) ==
    /\ ret' = IF DOMAIN inst[p].data.credentials = {} THEN None
              ELSE Some(ListOfValues(inst[p].data.credentials))
    /\ last' = Call("list_credentials", p, None,
                    IF DOMAIN inst[p].data.credentials = {} THEN "ValueError" ELSE "ok")
    /\ UNCHANGED <<vaultFile, keyFile, inst, urandom, createdWith, mode>>

\* list_credentials()
list_credentials(p) ==
    /\ ret' = Some(ListOfValues(inst[p].data.credentials))
    /\ last' = Call("list_credentials", p, None, "ok")
    /\ UNCHANGED <<vaultFile, keyFile, inst, urandom, createdWith, mode>>

\* Mutant: a get of a name that is not there raises, as a dict lookup would.
get_alias_raising(p, name) ==
    /\ ret' = IF name \notin DOMAIN inst[p].data.aliases THEN None
              ELSE Some(inst[p].data.aliases[name])
    /\ last' = Call("get_alias", p, name,
                    IF name \notin DOMAIN inst[p].data.aliases THEN "KeyError" ELSE "ok")
    /\ UNCHANGED <<vaultFile, keyFile, inst, urandom, createdWith, mode>>

\* get_alias(name)
get_alias(p, name) ==
    /\ ret' = IF name \notin DOMAIN inst[p].data.aliases THEN None
              ELSE Some(inst[p].data.aliases[name])
    /\ last' = Call("get_alias", p, name, "ok")
    /\ UNCHANGED <<vaultFile, keyFile, inst, urandom, createdWith, mode>>

\* list_aliases()
list_aliases(p) ==
    /\ ret' = Some(ListOfValues(inst[p].data.aliases))
    /\ last' = Call("list_aliases", p, None, "ok")
    /\ UNCHANGED <<vaultFile, keyFile, inst, urandom, createdWith, mode>>

\* A file of no bytes, and len(content).
EmptyFile == <<>>
IsEmptyFile(content) == DOMAIN content = {}

\* Mutant: a file is a vault, whatever its length.
exists_any_length(p) ==
    /\ last' = Call("exists", p, None, IF IsNone(vaultFile) THEN "False" ELSE "True")
    /\ mode' = [mode EXCEPT !.vault =
                   ModeAfter(read_secure_file(FileOf(vaultFile, mode.vault), umask))]
    /\ UNCHANGED <<vaultFile, keyFile, inst, urandom, createdWith>>

\* exists(): vault = read_secure_file(VAULT_FILE); vault is not None and len(vault) > 0
exists(p) ==
    LET r == read_secure_file(FileOf(vaultFile, mode.vault), umask)
    IN /\ last' = Call("exists", p, None,
                       IF ~IsNone(r.buf) /\ ~IsEmptyFile(Val(r.buf)) THEN "True" ELSE "False")
       /\ mode' = [mode EXCEPT !.vault = ModeAfter(r)]
       /\ UNCHANGED <<vaultFile, keyFile, inst, urandom, createdWith>>

(***************************************************************************)
(* Inputs                                                                  *)
(***************************************************************************)
\* Records as a caller of add_* builds them: all defaults, or every field given.
Credentials == {Credential(n, "user", "pass", Some("note"), Some(<<"tag">>)) : n \in Names}

Aliases == {Alias(n, "echo", Some("note"), Some(<<"tag">>)) : n \in Names}

\* Keyword arguments of an update descriptor: any one field, or none.
CredentialKws ==
    {[f \in {"new_name"} |-> Some(n)] : n \in Names}
    \cup {[f \in {"username"} |-> Some("new_user")]}

AliasKws ==
    {[f \in {"new_name"} |-> Some(n)] : n \in Names}
    \cup {[f \in {"command"} |-> Some("ls")]}


(***************************************************************************)
(* One process using the vault, one call after the other.                  *)
(***************************************************************************)
\* A Vault call, counted; no Vault call touches the session file.
Counted(A) ==
    /\ calls < MaxCalls
    /\ calls' = calls + 1
    /\ A
    /\ ret' = None
    /\ UNCHANGED <<sessionVars, fsVars, cmd>>

\* A Vault call that returns a value, counted.
CountedReturning(A) ==
    /\ calls < MaxCalls
    /\ calls' = calls + 1
    /\ A
    /\ UNCHANGED <<sessionVars, fsVars, cmd>>

Next ==
    \/ Counted(Construct("p1"))
    \/ \E pw \in Passwords : Counted(urandom + 2 <= MaxDraws /\ create("p1", pw))
    \/ \E b \in BOOLEAN : Counted(load("p1", b))
    \/ Counted(lock("p1"))
    \/ \E pw \in Passwords : Counted(unlock("p1", pw))
    \/ \E c \in Credentials : Counted(add_credential("p1", c))
    \/ \E n \in Names : Counted(delete_credential("p1", n))
    \/ \E n \in Names, kw \in CredentialKws : Counted(update_credential("p1", n, kw))
    \/ \E a \in Aliases : Counted(add_alias("p1", a))
    \/ \E n \in Names : Counted(delete_alias("p1", n))
    \/ \E n \in Names, kw \in AliasKws : Counted(update_alias("p1", n, kw))

Spec == Init /\ [][Next]_vars

(***************************************************************************)
(* Two processes using the same vault file and key cache: nothing orders   *)
(* their calls.  Each call runs to completion (the race is between calls). *)
(***************************************************************************)
\* The files after an earlier process ran create("P") and unlock("P") on a new
\* Vault: an empty vault, unlocked.
InitUnlocked ==
    LET key == DeriveKey("P", 1)
        ct == AesGcmEncrypt(key, 2, model_dump_json(EmptyVaultData))
    IN /\ vaultFile = Some(Envelope(1, 2, ct))
       /\ keyFile = Some(key)
       /\ inst = [p \in Procs |-> NewVault]
       /\ urandom = 2
       /\ last = Call("unlock", "p1", "P", "ok")
       /\ calls = 0
       /\ createdWith = Put(EmptyDict, 1, "P")
       /\ sessionFile = None
       /\ now = 0
       /\ sessionStart = None
       /\ mode = [vault |-> Some(OwnerRead), key |-> Some(OwnerRead), session |-> None]
       /\ path = None
       /\ pend = [p \in Procs |-> Idle]
       /\ umask = Umask022
       /\ cmd = NoCommand
       /\ ret = None

NextConcurrent ==
    \/ \E p \in Procs : Counted(Construct(p))
    \/ \E p \in Procs : Counted(load(p, TRUE))
    \/ \E p \in Procs, c \in Credentials : Counted(add_credential(p, c))
    \/ \E p \in Procs, n \in Names : Counted(delete_credential(p, n))

SpecConcurrent == InitUnlocked /\ [][NextConcurrent]_vars

(***************************************************************************)
(* A new process opening a vault that an earlier process left locked.      *)
(***************************************************************************)
\* The files after an earlier process ran create("P"), unlock("P"),
\* add_credential(a) and lock(): a locked vault holding one credential.
InitSealed ==
    LET key == DeriveKey("P", 1)
        a == Credential("a", "user", "pass", Some("note"), Some(<<"tag">>))
        d == VaultData(Put(EmptyDict, "a", a), EmptyDict)
        ct == AesGcmEncrypt(key, 2, model_dump_json(d))
    IN /\ vaultFile = Some(Envelope(1, 2, ct))
       /\ keyFile = None
       /\ inst = [p \in Procs |-> NewVault]
       /\ urandom = 2
       /\ last = Call("lock", "p1", None, "ok")
       /\ calls = 0
       /\ createdWith = Put(EmptyDict, 1, "P")
       /\ sessionFile = None
       /\ now = 0
       /\ sessionStart = None
       /\ mode = [vault |-> Some(OwnerRead), key |-> None, session |-> None]
       /\ path = None
       /\ pend = [p \in Procs |-> Idle]
       /\ umask = Umask022
       /\ cmd = NoCommand
       /\ ret = None

NextReopen ==
    \/ Counted(Construct("p1"))
    \/ \E b \in BOOLEAN : Counted(load("p1", b))
    \/ Counted(lock("p1"))
    \/ \E pw \in Passwords : Counted(unlock("p1", pw))
    \/ \E c \in Credentials : Counted(add_credential("p1", c))
    \/ \E n \in Names : Counted(delete_credential("p1", n))

SpecReopen == InitSealed /\ [][NextReopen]_vars

(***************************************************************************)
(* Session manager (core/session.py)                                       *)
(***************************************************************************)
SESSION_LIFESPAN == 60 * 30

\* The instants the clock is read at: around every multiple of the lifespan.
Instants ==
    {t \in 0..(MaxPeriods * SESSION_LIFESPAN + 1) :
        \E k \in 0..MaxPeriods, d \in {-1, 0, 1} : t = k * SESSION_LIFESPAN + d}

\* datetime.isoformat() and datetime.fromisoformat() (None: ValueError)
isoformat(t) == <<"iso", t>>
fromisoformat(str) == IF str[1] = "iso" THEN Some(str[2]) ELSE None

JBool(b) == <<"bool", b>>

\* json.dumps(session_data) in create_session
SessionJson(t) == JObj([unlocked |-> JBool(TRUE), timestamp |-> JStr(isoformat(t))])

\* Python's truth value of a JSON value (not x)
Truthy(j) ==
    CASE j[1] = "bool" -> j[2]
      [] j[1] = "null" -> FALSE
      [] j[1] = "num" -> j[2] # 0
      [] j[1] = "str" -> Len(j[2]) > 0
      [] j[1] = "list" -> Len(j[2]) > 0
      [] j[1] = "obj" -> DOMAIN j[2] # {}

\* datetime.utcnow() when datetime.now() is t (the local time zone is UTC)
utcnow(t) == t

\* Session(**json.loads(...)): the fields of the Session, or None when
\* json.loads or the constructor raises (content that is not JSON, a JSON value
\* that is no object, a field Session does not have).  A field the object
\* leaves out takes its default: unlocked=True, timestamp=utcnow().isoformat().
SessionOf(j, t) ==
    IF j[1] # "obj" THEN None
    ELSE IF ~(DOMAIN j[2] \subseteq {"unlocked", "timestamp"}) THEN None
    ELSE Some([unlocked |-> IF "unlocked" \in DOMAIN j[2] THEN j[2].unlocked ELSE JBool(TRUE),
               timestamp |-> IF "timestamp" \in DOMAIN j[2] THEN j[2].timestamp
                             ELSE JStr(isoformat(utcnow(t)))])

\* Mutant: the age of the session is not looked at.
IsSessionActiveAnyAge(sf, t) ==
    IF IsNone(sf) THEN "False"
    ELSE LET session == SessionOf(Val(sf), t)
         IN IF IsNone(session) THEN "False"
            ELSE IF ~Truthy(Val(session).unlocked) THEN "False"
            ELSE IF Val(session).timestamp[1] # "str" THEN "TypeError"
            ELSE IF IsNone(fromisoformat(Val(session).timestamp[2])) THEN "ValueError"
            ELSE "True"

\* is_session_active() with the session file sf at time t: "True", "False", or
\* the exception that escapes (fromisoformat is outside the try).
IsSessionActive(sf, t) ==
    IF IsNone(sf) THEN "False"
    ELSE LET session == SessionOf(Val(sf), t)
         IN IF IsNone(session) THEN "False"
            ELSE IF ~Truthy(Val(session).unlocked) THEN "False"
            ELSE IF Val(session).timestamp[1] # "str" THEN "TypeError"
            ELSE LET session_time == fromisoformat(Val(session).timestamp[2])
                 IN IF IsNone(session_time) THEN "ValueError"
                    ELSE IF t - Val(session_time) > SESSION_LIFESPAN THEN "False"
                    ELSE "True"

create_session ==
    /\ sessionFile' = Some(SessionJson(now))
    /\ sessionStart' = Some(now)
    /\ mode' = [mode EXCEPT !.session =
                   ModeAfter(write_secure_file(FileOf(sessionFile, mode.session),
                                               SessionJson(now), umask))]
    /\ last' = Call("create_session", "p1", None, "ok")
    /\ UNCHANGED <<now, vaultVars, fsVars, cliVars>>

\* Mutant: ending the session also removes the cached key.
end_session_locking ==
    /\ sessionFile' = None
    /\ sessionStart' = None
    /\ keyFile' = None
    /\ mode' = [mode EXCEPT !.session = None, !.key = None]
    /\ last' = Call("end_session", "p1", None, "ok")
    /\ UNCHANGED <<now, vaultFile, inst, urandom, calls, createdWith, fsVars, cliVars>>

end_session ==
    /\ sessionFile' = None
    /\ sessionStart' = None
    /\ mode' = [mode EXCEPT !.session =
                   ModeAfter(delete_secure_file(FileOf(sessionFile, mode.session), umask))]
    /\ last' = Call("end_session", "p1", None, "ok")
    /\ UNCHANGED <<now, vaultVars, fsVars, cliVars>>

\* Mutant: a check that finds no active session removes the cached key.
is_session_active_evicting ==
    /\ last' = Call("is_session_active", "p1", None, IsSessionActive(sessionFile, now))
    /\ mode' = [mode EXCEPT !.session =
                   ModeAfter(read_secure_file(FileOf(sessionFile, mode.session), umask)),
                            !.key = IF IsSessionActive(sessionFile, now) = "False" THEN None ELSE @]
    /\ keyFile' = IF IsSessionActive(sessionFile, now) = "False" THEN None ELSE keyFile
    /\ UNCHANGED <<sessionVars, vaultFile, inst, urandom, calls, createdWith, fsVars, cliVars>>

\* Mutant: a check that finds the session active renews its timestamp.
is_session_active_refreshing ==
    LET r == IsSessionActive(sessionFile, now)
    IN /\ last' = Call("is_session_active", "p1", None, r)
       /\ sessionFile' = IF r = "True" THEN Some(SessionJson(now)) ELSE sessionFile
       /\ mode' = [mode EXCEPT !.session =
                      ModeAfter(read_secure_file(FileOf(sessionFile, mode.session), umask))]
       /\ UNCHANGED <<now, sessionStart, vaultVars, fsVars, cliVars>>

is_session_active ==
    /\ last' = Call("is_session_active", "p1", None, IsSessionActive(sessionFile, now))
    /\ mode' = [mode EXCEPT !.session =
                   ModeAfter(read_secure_file(FileOf(sessionFile, mode.session), umask))]
    /\ UNCHANGED <<sessionVars, vaultVars, fsVars, cliVars>>

\* Time passes (the clock does not go back).
Tick ==
    /\ \E t \in Instants : t > now /\ now' = t
    /\ UNCHANGED <<sessionFile, sessionStart, last, vaultVars, mode, fsVars, cliVars>>

NextSession ==
    \/ create_session
    \/ end_session
    \/ is_session_active
    \/ Tick

SpecSession == Init /\ [][NextSession]_vars

(***************************************************************************)
(* The session manager on a session file it did not write itself.          *)
(***************************************************************************)
\* What SESSION_FILE may hold: bytes that are not JSON, JSON that is no object,
\* objects with a field too many or too few, fields of the wrong type, a
\* timestamp that is no ISO-8601 string, and well-formed records.
SessionDocuments ==
    {<<"raw">>, JNull, JList(<<>>), JObj(EmptyDict)}
    \cup {JObj([unlocked |-> JBool(TRUE), timestamp |-> JStr(isoformat(0)),
                user |-> JStr("x")])}
    \cup {JObj([unlocked |-> JBool(TRUE)])}
    \cup {JObj([unlocked |-> u, timestamp |-> ts]) :
            u \in {JBool(TRUE), JBool(FALSE), JStr("yes")},
            ts \in {JStr(isoformat(0)), JStr(<<"text", "garbage">>), <<"num", 0>>}}

InitSessionFile ==
    /\ vaultFile = None
    /\ keyFile = None
    /\ inst = [p \in Procs |-> NewVault]
    /\ urandom = 0
    /\ last = Call("init", "p1", None, "ok")
    /\ calls = 0
    /\ createdWith = EmptyDict
    /\ sessionFile \in {Some(d) : d \in SessionDocuments}
    /\ now = 0
    /\ sessionStart = None
    /\ mode = [NoFiles EXCEPT !.session = Some(OwnerRead)]
    /\ path = None
    /\ pend = [p \in Procs |-> Idle]
    /\ umask = Umask022
    /\ cmd = NoCommand
    /\ ret = None

SpecSessionFile == InitSessionFile /\ [][NextSession]_vars

(***************************************************************************)
(* One process calling the functions of utils/secure_file.py on a file,    *)
(* followed line by line.                                                  *)
(***************************************************************************)
FileContents == {"k1", "k2"}

InitSecureFile ==
    /\ vaultFile = None
    /\ keyFile = None
    /\ inst = [p \in Procs |-> NewVault]
    /\ urandom = 0
    /\ last = Call("init", "p1", None, "ok")
    /\ calls = 0
    /\ createdWith = EmptyDict
    /\ sessionFile = None
    /\ now = 0
    /\ sessionStart = None
    /\ mode = NoFiles
    /\ path = None
    /\ pend = [p \in Procs |-> Idle]
    /\ umask \in Umasks
    /\ cmd = NoCommand
    /\ ret = None

\* Process p, in no call, calls op: the call is at the function's first line.
CallSecureFile(p, op, data) ==
    /\ pend[p].pc = 0
    /\ pend' = [pend EXCEPT ![p] = [op |-> op, pc |-> EntryLine(op), buf |-> None, data |-> data]]
    /\ last' = Call(op, p, data, "called")
    /\ UNCHANGED <<path, umask, mode, vaultVars, sessionVars, cliVars>>

\* The call process p is in runs its next line; with the last line it returns
\* (or a line raises).
StepSecureFile(p) ==
    /\ pend[p].pc # 0
    /\ LET s == SecureFileStep(pend[p].pc, path, pend[p].buf, pend[p].data, umask)
       IN /\ path' = s.f
          /\ pend' = [pend EXCEPT ![p] = [@ EXCEPT !.pc = s.pc, !.buf = s.buf]]
          /\ last' = IF s.pc = 0 THEN Call(pend[p].op, p, pend[p].data, s.res) ELSE last
    /\ UNCHANGED <<umask, mode, vaultVars, sessionVars, cliVars>>

NextSecureFile ==
    \/ \E d \in FileContents : CallSecureFile("p1", "write_secure_file", d)
    \/ CallSecureFile("p1", "read_secure_file", None)
    \/ CallSecureFile("p1", "delete_secure_file", None)
    \/ StepSecureFile("p1")

SpecSecureFile == InitSecureFile /\ [][NextSecureFile]_vars

(***************************************************************************)
(* One process using the vault and the session manager: every operation    *)
(* that touches VAULT_FILE, KEY_CACHE_FILE or SESSION_FILE.                *)
(***************************************************************************)
NextFiles ==
    \/ Counted(Construct("p1"))
    \/ Counted(urandom + 2 <= MaxDraws /\ create("p1", "P"))
    \/ \E b \in BOOLEAN : Counted(load("p1", b))
    \/ Counted(lock("p1"))
    \/ \E pw \in Passwords : Counted(unlock("p1", pw))
    \/ Counted(exists("p1"))
    \/ \E c \in Credentials : c.name = "a" /\ Counted(add_credential("p1", c))
    \/ Counted(delete_credential("p1", "a"))
    \/ \E kw \in CredentialKws : Counted(update_credential("p1", "a", kw))
    \/ \E a \in Aliases : a.name = "a" /\ Counted(add_alias("p1", a))
    \/ Counted(delete_alias("p1", "a"))
    \/ \E kw \in AliasKws : Counted(update_alias("p1", "a", kw))
    \/ create_session
    \/ end_session
    \/ is_session_active

SpecFiles == Init /\ [][NextFiles]_vars

(***************************************************************************)
(* The vault and the session manager while a session runs out.             *)
(***************************************************************************)
\* The session's lifespan passes, and a second more.
Expire == Tick /\ now' = now + SESSION_LIFESPAN + 1

NextExpiry ==
    \/ NextFiles
    \/ Expire

SpecExpiry == Init /\ [][NextExpiry]_vars

(***************************************************************************)
(* The commands of the CLI (commands/creds, commands/credentials,          *)
(* commands/alias) on an unlocked vault.  A command runs in steps: the     *)
(* session check, Vault(), load(), and the operation; between the steps    *)
(* time may pass and another terminal may end or start the session or lock *)
(* the vault.                                                              *)
(***************************************************************************)
CommandNames == {"creds add", "creds delete", "creds get", "creds list", "creds update",
                 "alias add", "alias delete", "alias get", "alias list", "alias update"}

\* The options of an update command: new_name, username / command and notes are
\* assigned to the descriptor as given (None when the option is absent).
CredentialOptions ==
    {[new_name |-> nn, username |-> un, notes |-> None] :
        nn \in {None} \cup {Some(n) : n \in Names}, un \in {None, Some("new_user")}}

AliasOptions ==
    {[new_name |-> nn, command |-> c, notes |-> None] :
        nn \in {None} \cup {Some(n) : n \in Names}, c \in {None, Some("ls")}}

\* any([new_name, ..., tags]) of an update command
AnyOption(kw) == \E f \in DOMAIN kw : ~IsNone(kw[f])

\* The arguments a command can be given.
CommandArgs(name) ==
    CASE name = "creds add" -> Credentials
      [] name = "alias add" -> Aliases
      [] name \in {"creds delete", "creds get", "alias delete", "alias get"} -> Names
      [] name \in {"creds list", "alias list"} -> {None}
      [] name = "creds update" -> {[name |-> n, kw |-> kw] : n \in Names, kw \in CredentialOptions}
      [] name = "alias update" -> {[name |-> n, kw |-> kw] : n \in Names, kw \in AliasOptions}

\* raise typer.Exit(code), or the return of the command (code 0)
Exit(code) == cmd' = [cmd EXCEPT !.at = "exit", !.code = code]

\* A step of a command that is a call on its Vault object.
InCommand(at, A) ==
    /\ cmd.at = at
    /\ A
    /\ UNCHANGED <<calls, sessionVars, fsVars>>

\* Mutant: the command goes on whatever the session check returns.
CommandGateOpen(name, arg) ==
    /\ cmd.at = "exit" /\ cmd.n < MaxCommands
    /\ last' = Call("is_session_active", "p1", None, IsSessionActive(sessionFile, now))
    /\ mode' = [mode EXCEPT !.session =
                   ModeAfter(read_secure_file(FileOf(sessionFile, mode.session), umask))]
    /\ cmd' = [name |-> name, arg |-> arg, n |-> cmd.n + 1, at |-> "new", code |-> 0]
    /\ UNCHANGED <<sessionVars, vaultVars, fsVars, ret>>

\* The first statement of every command: if not is_session_active(): raise
\* typer.Exit(1).  An exception that escapes is_session_active ends the command
\* with status 1 as well.
CommandGate(name, arg) ==
    /\ cmd.at = "exit" /\ cmd.n < MaxCommands
    /\ LET r == IsSessionActive(sessionFile, now)
       IN /\ last' = Call("is_session_active", "p1", None, r)
          /\ cmd' = [name |-> name, arg |-> arg, n |-> cmd.n + 1,
                     at |-> IF r = "True" THEN "new" ELSE "exit",
                     code |-> IF r = "True" THEN 0 ELSE 1]
    /\ mode' = [mode EXCEPT !.session =
                   ModeAfter(read_secure_file(FileOf(sessionFile, mode.session), umask))]
    /\ UNCHANGED <<sessionVars, vaultVars, fsVars, ret>>

\* vault = Vault().load(), in two steps; any exception: raise typer.Exit(1)
CommandNew ==
    InCommand("new", Construct("p1") /\ cmd' = [cmd EXCEPT !.at = "load"] /\ ret' = None)

CommandLoad ==
    InCommand("load", /\ load("p1", TRUE)
                      /\ ret' = None
                      /\ IF last'.res = "ok" THEN cmd' = [cmd EXCEPT !.at = "run"] ELSE Exit(1))

\* vault.add_credential(credential) / vault.add_alias(alias); KeyError: Exit(1)
CommandAdd ==
    InCommand("run", /\ cmd.name \in {"creds add", "alias add"}
                     /\ IF cmd.name = "creds add" THEN add_credential("p1", cmd.arg)
                                                  ELSE add_alias("p1", cmd.arg)
                     /\ ret' = None
                     /\ Exit(IF last'.res = "ok" THEN 0 ELSE 1))

\* vault.delete_credential(name) / vault.delete_alias(name); KeyError: Exit(1)
CommandDelete ==
    InCommand("run", /\ cmd.name \in {"creds delete", "alias delete"}
                     /\ IF cmd.name = "creds delete" THEN delete_credential("p1", cmd.arg)
                                                     ELSE delete_alias("p1", cmd.arg)
                     /\ ret' = None
                     /\ Exit(IF last'.res = "ok" THEN 0 ELSE 1))

\* vault.get_credential(name) / vault.get_alias(name); None: Exit(1)
CommandGet ==
    InCommand("run", /\ cmd.name \in {"creds get", "alias get"}
                     /\ IF cmd.name = "creds get" THEN get_credential("p1", cmd.arg)
                                                  ELSE get_alias("p1", cmd.arg)
                     /\ Exit(IF IsNone(ret') THEN 1 ELSE 0))

\* vault.list_credentials() / vault.list_aliases()
CommandList ==
    InCommand("run", /\ cmd.name \in {"creds list", "alias list"}
                     /\ IF cmd.name = "creds list" THEN list_credentials("p1")
                                                   ELSE list_aliases("p1")
                     /\ Exit(0))

\* update: the record is looked up (None: Exit(1)); without any option the
\* command ends (Exit(0)); else the descriptor is built from the options and
\* passed to update_*; a KeyError is caught and the command returns.
CommandUpdate ==
    InCommand("run",
        /\ cmd.name \in {"creds update", "alias update"}
        /\ LET creds == cmd.name = "creds update"
               name == cmd.arg.name
               kw == cmd.arg.kw
               found == name \in DOMAIN (IF creds THEN inst["p1"].data.credentials
                                                  ELSE inst["p1"].data.aliases)
           IN IF ~found \/ ~AnyOption(kw)
              THEN /\ IF creds THEN get_credential("p1", name) ELSE get_alias("p1", name)
                   /\ Exit(IF found THEN 0 ELSE 1)
              ELSE /\ IF creds THEN update_credential("p1", name, kw)
                               ELSE update_alias("p1", name, kw)
                   /\ ret' = None
                   /\ Exit(0))

\* The vault of a user who has unlocked it, and their session.
InitCli ==
    /\ InitUnlocked
    /\ mode.session = None

NextCli ==
    \/ \E name \in CommandNames : \E arg \in CommandArgs(name) : CommandGate(name, arg)
    \/ CommandNew
    \/ CommandLoad
    \/ CommandAdd
    \/ CommandDelete
    \/ CommandGet
    \/ CommandList
    \/ CommandUpdate
    \/ create_session
    \/ end_session
    \/ Expire
    \/ Counted(lock("p1"))

SpecCli == InitCli /\ [][NextCli]_vars

(***************************************************************************)
(* The records of a vault that was created and unlocked: add, get, list,   *)
(* update and delete on the Vault object that created it, which may be     *)
(* locked and unlocked again in between.                                   *)
(***************************************************************************)
\* v = Vault().create("P").unlock("P")
InitCreated ==
    LET key == DeriveKey("P", 1)
        ct == AesGcmEncrypt(key, 2, model_dump_json(EmptyVaultData))
    IN /\ vaultFile = Some(Envelope(1, 2, ct))
       /\ keyFile = Some(key)
       /\ inst = [p \in Procs |->
                     IF p = "p1" THEN [salt |-> Some(1), nonce |-> Some(2),
                                       encrypted_data |-> Some(ct), data |-> EmptyVaultData]
                                 ELSE NewVault]
       /\ urandom = 2
       /\ last = Call("unlock", "p1", "P", "ok")
       /\ calls = 0
       /\ createdWith = Put(EmptyDict, 1, "P")
       /\ sessionFile = None
       /\ now = 0
       /\ sessionStart = None
       /\ mode = [vault |-> Some(OwnerRead), key |-> Some(OwnerRead), session |-> None]
       /\ path = None
       /\ pend = [p \in Procs |-> Idle]
       /\ umask = Umask022
       /\ cmd = NoCommand
       /\ ret = None

NextRecords ==
    \/ \E c \in Credentials : Counted(add_credential("p1", c))
    \/ \E n \in Names : CountedReturning(get_credential("p1", n))
    \/ CountedReturning(list_credentials("p1"))
    \/ \E n \in Names, kw \in CredentialKws : Counted(update_credential("p1", n, kw))
    \/ \E n \in Names : Counted(delete_credential("p1", n))
    \/ \E a \in Aliases : Counted(add_alias("p1", a))
    \/ \E n \in Names : CountedReturning(get_alias("p1", n))
    \/ CountedReturning(list_aliases("p1"))
    \/ \E n \in Names, kw \in AliasKws : Counted(update_alias("p1", n, kw))
    \/ \E n \in Names : Counted(delete_alias("p1", n))
    \/ Counted(lock("p1"))
    \/ Counted(unlock("p1", "P"))

SpecRecords == InitCreated /\ [][NextRecords]_vars

(***************************************************************************)
(* Updates whose descriptors carry several fields, empty values among      *)
(* them, on a vault that was created and unlocked.                         *)
(***************************************************************************)
\* UpdateCredential(name=..., username="", ...): one field given as the empty
\* value, or all of them, or all of them with other values.
CredentialValueKws ==
    {[f \in {"username"} |-> Some("")], [f \in {"password"} |-> Some("")],
     [f \in {"notes"} |-> Some("")], [f \in {"tags"} |-> Some(<<>>)],
     [new_name |-> Some("b"), username |-> Some(""), password |-> Some(""),
      notes |-> Some(""), tags |-> Some(<<>>)],
     [new_name |-> Some("a"), username |-> Some("new_user"), password |-> Some("new_pass"),
      notes |-> Some("new note"), tags |-> Some(<<"new", "tags">>)]}

AliasValueKws ==
    {[f \in {"command"} |-> Some("")],
     [f \in {"notes"} |-> Some("")], [f \in {"tags"} |-> Some(<<>>)],
     [new_name |-> Some("b"), command |-> Some(""), notes |-> Some(""), tags |-> Some(<<>>)],
     [new_name |-> Some("a"), command |-> Some("ls"),
      notes |-> Some("new note"), tags |-> Some(<<"new", "tags">>)]}

NextUpdates ==
    \/ \E c \in Credentials : Counted(add_credential("p1", c))
    \/ \E n \in Names, kw \in CredentialValueKws : Counted(update_credential("p1", n, kw))
    \/ \E a \in Aliases : Counted(add_alias("p1", a))
    \/ \E n \in Names, kw \in AliasValueKws : Counted(update_alias("p1", n, kw))

SpecUpdates == InitCreated /\ [][NextUpdates]_vars

(***************************************************************************)
(* A vault that was created and unlocked and stays unlocked: records are   *)
(* added, updated, deleted and listed.                                     *)
(***************************************************************************)
NextListing ==
    \/ \E c \in Credentials : Counted(add_credential("p1", c))
    \/ \E n \in Names, kw \in CredentialKws : Counted(update_credential("p1", n, kw))
    \/ \E n \in Names : Counted(delete_credential("p1", n))
    \/ CountedReturning(list_credentials("p1"))
    \/ \E a \in Aliases : Counted(add_alias("p1", a))
    \/ \E n \in Names, kw \in AliasKws : Counted(update_alias("p1", n, kw))
    \/ \E n \in Names : Counted(delete_alias("p1", n))
    \/ CountedReturning(list_aliases("p1"))

SpecListing == InitCreated /\ [][NextListing]_vars

(***************************************************************************)
(* _derive_key, _encrypt_data and _decrypt_data as functions: one Vault    *)
(* object seals a VaultData, another opens the ciphertext with a key       *)
(* derived from a password and a salt.                                     *)
(***************************************************************************)
\* The notes and tags a record can carry: the defaults (notes "", tags None),
\* notes None, both given, both given and empty.
NotesAndTags ==
    {<<Some(""), None>>, <<None, None>>, <<Some("note"), Some(<<"tag", "t2">>)>>,
     <<Some(""), Some(<<>>)>>}

\* The dicts with keys among Names and values from recs(name).
DictsOf(recs) ==
    UNION {{d \in [ns -> UNION {recs[n] : n \in ns}] : \A n \in ns : d[n] \in recs[n]} :
           ns \in SUBSET Names}

VaultDatas ==
    {VaultData(c, a) :
        c \in DictsOf([n \in Names |->
                         {Credential(n, "user", "pass", nt[1], nt[2]) : nt \in NotesAndTags}]),
        a \in DictsOf([n \in Names |-> {Alias(n, "echo", nt[1], nt[2]) : nt \in NotesAndTags}])}

Salts == {1, 2}
Nonces == {3, 4}

\* A Vault object with a salt, a nonce and a VaultData; a second, new one.
InitSealing ==
    /\ \E salt \in Salts, nonce \in Nonces, d \in VaultDatas :
          inst = [p \in Procs |->
                     IF p = "p1" THEN [salt |-> Some(salt), nonce |-> Some(nonce),
                                       encrypted_data |-> None, data |-> d]
                                 ELSE NewVault]
    /\ vaultFile = None
    /\ keyFile = None
    /\ urandom = 0
    /\ last = Call("Vault", "p1", None, "ok")
    /\ calls = 0
    /\ createdWith = EmptyDict
    /\ sessionFile = None
    /\ now = 0
    /\ sessionStart = None
    /\ mode = NoFiles
    /\ path = None
    /\ pend = [p \in Procs |-> Idle]
    /\ umask = Umask022
    /\ cmd = NoCommand
    /\ ret = None

\* self._encrypt_data(self._derive_key(password))
derive_and_encrypt(p, password) ==
    LET v == inst[p]
        key == DeriveKey(password, Val(v.salt))
        ct == AesGcmEncrypt(key, Val(v.nonce), model_dump_json(v.data))
    IN /\ IsNone(v.encrypted_data)
       /\ inst' = [inst EXCEPT ![p].encrypted_data = Some(ct)]
       /\ createdWith' = Put(createdWith, Val(v.salt), password)
       /\ last' = Call("_encrypt_data", p, password, "ok")
       /\ UNCHANGED <<vaultFile, keyFile, urandom, calls, mode, sessionVars, fsVars, cliVars>>

\* On an object q given the nonce and the ciphertext of object p, and a salt:
\* self._decrypt_data(self._derive_key(password))
derive_and_decrypt(q, p, password, salt) ==
    LET key == DeriveKey(password, salt)
        d == DecryptData(key, Val(inst[p].nonce), Val(inst[p].encrypted_data))
    IN /\ ~IsNone(inst[p].encrypted_data)
       /\ inst[q] = NewVault
       /\ inst' = [inst EXCEPT ![q] = [salt |-> Some(salt), nonce |-> inst[p].nonce,
                                       encrypted_data |-> inst[p].encrypted_data,
                                       data |-> IF IsNone(d) THEN @.data ELSE Val(d)]]
       /\ last' = Call("_decrypt_data", q, [password |-> password, salt |-> salt],
                       IF IsNone(d) THEN "InvalidTag" ELSE "ok")
       /\ UNCHANGED <<vaultFile, keyFile, urandom, calls, createdWith, mode,
                      sessionVars, fsVars, cliVars>>

NextSealing ==
    \/ \E pw \in Passwords : derive_and_encrypt("p1", pw)
    \/ \E pw \in Passwords, salt \in Salts : derive_and_decrypt("p2", "p1", pw, salt)

SpecSealing == InitSealing /\ [][NextSealing]_vars

(***************************************************************************)
(* exists() on a directory that holds no envelope file, or an empty one,   *)
(* before and after create, with the vault locked or unlocked and the      *)
(* session active or not.                                                  *)
(***************************************************************************)
InitExists ==
    /\ vaultFile \in {None, Some(EmptyFile)}
    /\ mode = [NoFiles EXCEPT !.vault = IF IsNone(vaultFile) THEN None
                                        ELSE Some(OpenCreateMode \ Umask022)]
    /\ keyFile = None
    /\ inst = [p \in Procs |-> NewVault]
    /\ urandom = 0
    /\ last = Call("Vault", "p1", None, "ok")
    /\ calls = 0
    /\ createdWith = EmptyDict
    /\ sessionFile = None
    /\ now = 0
    /\ sessionStart = None
    /\ path = None
    /\ pend = [p \in Procs |-> Idle]
    /\ umask = Umask022
    /\ cmd = NoCommand
    /\ ret = None

NextExists ==
    \/ Counted(Construct("p1"))
    \/ Counted(exists("p1"))
    \/ \E pw \in Passwords : Counted(urandom + 2 <= MaxDraws /\ create("p1", pw))
    \/ Counted(lock("p1"))
    \/ \E pw \in Passwords : Counted(unlock("p1", pw))
    \/ create_session
    \/ end_session
    \/ Expire

SpecExists == InitExists /\ [][NextExists]_vars

(***************************************************************************)
(* Two processes on one file that exists: one writes it (a mutation being  *)
(* persisted), the other reads it (load() or exists()), each call followed *)
(* line by line, the lines of the two interleaved in every order.          *)
(***************************************************************************)
\* The file as the last write_secure_file left it.
InitStoredFile ==
    /\ vaultFile = None
    /\ keyFile = None
    /\ inst = [p \in Procs |-> NewVault]
    /\ urandom = 0
    /\ last = Call("init", "p1", None, "ok")
    /\ calls = 0
    /\ createdWith = EmptyDict
    /\ sessionFile = None
    /\ now = 0
    /\ sessionStart = None
    /\ mode = NoFiles
    /\ path = File(OwnerRead, "k1")
    /\ pend = [p \in Procs |-> Idle]
    /\ umask = Umask022
    /\ cmd = NoCommand
    /\ ret = None

NextWriterReader ==
    \/ \E d \in FileContents : CallSecureFile("p1", "write_secure_file", d)
    \/ StepSecureFile("p1")
    \/ CallSecureFile("p2", "read_secure_file", None)
    \/ StepSecureFile("p2")

SpecWriterReader == InitStoredFile /\ [][NextWriterReader]_vars

(***************************************************************************)
(* Properties                                                              *)
(***************************************************************************)
MutatingOps == {"add_credential", "delete_credential", "update_credential",
                "add_alias", "delete_alias", "update_alias"}
CredentialOps == {"add_credential", "delete_credential", "update_credential"}

\* The step is a Vault call; last' describes it.
VaultCall == calls' = calls + 1

\* The VaultData document an envelope file holds.
StoredData(vf) == ParseVaultData(Val(vf).ct.pt)

\* The mapping (credentials or aliases) of VaultData d that operation op works on.
Mapping(d, op) == IF op \in CredentialOps THEN d.credentials ELSE d.aliases

\* C1: after load(raise_no_key=False) and then a successful unlock(P) on the same
\* Vault object, the key is cached and the in-memory VaultData holds exactly the
\* records the envelope stores.
C1_UnlockPopulates ==
    [][(/\ VaultCall
        /\ last.op = "load" /\ last.res = "ok" /\ last.arg = FALSE
        /\ last'.op = "unlock" /\ last'.res = "ok" /\ last'.p = last.p)
       => (/\ ~IsNone(keyFile')
           /\ inst'[last'.p].data = StoredData(vaultFile'))]_vars

\* C2: a successful update_credential / update_alias leaves every field of the
\* target record that the descriptor's constructor was not given (other than the
\* name) as it was before.
C2_UnsetFieldsUnchanged ==
    [][(VaultCall /\ last'.op \in {"update_credential", "update_alias"} /\ last'.res = "ok")
       => LET p == last'.p
              kw == last'.arg.kw
              X == last'.arg.name
              Y == IF "new_name" \in DOMAIN kw THEN Val(kw.new_name) ELSE X
              before == Mapping(inst[p].data, last'.op)[X]
              after == Mapping(inst'[p].data, last'.op)[Y]
          IN \A f \in (DOMAIN before) \ {"name"} :
                 f \notin DOMAIN kw => after[f] = before[f]]_vars

\* C3: after a successful add_*, delete_* or update_*, a new Vault().load() with
\* the cached key yields the in-memory VaultData of the object that made the
\* call, and the envelope's salt is the salt that object and the envelope had
\* before the call.
C3_ResealWhole ==
    [][(VaultCall /\ last'.op \in MutatingOps /\ last'.res = "ok")
       => LET p == last'.p
              fresh == LoadOutcome(NewVault, vaultFile', keyFile', TRUE)
          IN /\ fresh.res = "ok"
             /\ fresh.v.data = inst'[p].data
             /\ Val(vaultFile').salt = Val(inst[p].salt)
             /\ Val(vaultFile').salt = Val(vaultFile).salt]_vars

C3_Witness ==
    /\ last.op = "update_alias" /\ last.res = "ok"
    /\ DOMAIN inst["p1"].data.credentials # {}
    /\ DOMAIN inst["p1"].data.aliases # {}
    /\ StoredData(vaultFile) = inst["p1"].data

\* C4: an envelope that replaces another and holds a different plaintext is
\* never sealed with the same (key, nonce) pair as the one it replaces.
C4_FreshNonce ==
    [][(/\ ~IsNone(vaultFile) /\ ~IsNone(vaultFile')
        /\ Val(vaultFile').ct.pt # Val(vaultFile).ct.pt)
       => <<Val(vaultFile').ct.key, Val(vaultFile').ct.nonce>>
            # <<Val(vaultFile).ct.key, Val(vaultFile).ct.nonce>>]_vars

\* C5: a mutating operation called while no key is cached fails and changes
\* neither the in-memory VaultData (nor any other field of the Vault object) nor
\* the envelope.
C5_NoKeyNoMutation ==
    [][(VaultCall /\ last'.op \in MutatingOps /\ IsNone(keyFile))
       => (last'.res # "ok" /\ inst' = inst /\ vaultFile' = vaultFile)]_vars

\* C6: on a Vault object holding an envelope whose salt was drawn by create(P),
\* unlock(P') with P' # P raises ValueError and changes nothing: not the cached
\* key file, not the Vault object, not the envelope.
C6_WrongPassword ==
    [][(/\ VaultCall /\ last'.op = "unlock"
        /\ ~IsNone(inst[last'.p].salt)
        /\ createdWith[Val(inst[last'.p].salt)] # last'.arg)
       => (/\ last'.res = "ValueError"
           /\ keyFile' = keyFile /\ inst' = inst /\ vaultFile' = vaultFile)]_vars

C6_Witness ==
    /\ last.op = "unlock" /\ last.res = "ValueError"
    /\ ~IsNone(keyFile)
    /\ DOMAIN StoredData(vaultFile).credentials # {}

\* C7: an add_* of a name that is in the mapping raises KeyError and changes
\* neither the Vault object nor the envelope; a successful add_* puts the name in
\* the mapping and a successful delete_* takes it out; and an add_* of name X that
\* follows a successful delete_* of X succeeds.
C7_NameUnique ==
    [][VaultCall
       => LET c == last'
              p == c.p
              isAdd == c.op \in {"add_credential", "add_alias"}
              isDelete == c.op \in {"delete_credential", "delete_alias"}
          IN /\ (isAdd /\ c.arg.name \in DOMAIN Mapping(inst[p].data, c.op))
                  => (c.res = "KeyError" /\ inst' = inst /\ vaultFile' = vaultFile)
             /\ (isAdd /\ c.res = "ok")
                  => c.arg.name \in DOMAIN Mapping(inst'[p].data, c.op)
             /\ (isDelete /\ c.res = "ok")
                  => c.arg \notin DOMAIN Mapping(inst'[p].data, c.op)
             /\ (/\ isAdd
                 /\ last.op = (IF c.op = "add_credential" THEN "delete_credential" ELSE "delete_alias")
                 /\ last.res = "ok" /\ last.p = p /\ last.arg = c.arg.name)
                  => c.res = "ok"]_vars

C7_Witness ==
    /\ last.op = "add_alias" /\ last.res = "KeyError"
    /\ ~IsNone(keyFile)
    /\ last.arg.name \in DOMAIN StoredData(vaultFile).aliases

\* C8: a successful update_* of an existing record X whose descriptor is given
\* only new_name = Y (Y # X, Y not in the mapping) leaves under Y the prior
\* record (renamed) and nothing under X, and the envelope it writes holds Y and
\* not X.
C8_Rename ==
    [][(/\ VaultCall /\ last'.op \in {"update_credential", "update_alias"} /\ last'.res = "ok"
        /\ DOMAIN last'.arg.kw = {"new_name"}
        /\ Val(last'.arg.kw.new_name) # last'.arg.name
        /\ Val(last'.arg.kw.new_name) \notin DOMAIN Mapping(inst[last'.p].data, last'.op))
       => LET X == last'.arg.name
              Y == Val(last'.arg.kw.new_name)
              m == Mapping(inst[last'.p].data, last'.op)
              m2 == Mapping(inst'[last'.p].data, last'.op)
              e2 == Mapping(StoredData(vaultFile'), last'.op)
          IN /\ Y \in DOMAIN m2 /\ X \notin DOMAIN m2
             /\ m2[Y] = [m[X] EXCEPT !.name = Y]
             /\ Y \in DOMAIN e2 /\ X \notin DOMAIN e2]_vars

\* C9: a successful add_credential writes an envelope holding exactly the records
\* the calling process had in memory plus the new one, whatever another process
\* has written since that process loaded.
C9_LastWriterWins ==
    [][(VaultCall /\ last'.op = "add_credential" /\ last'.res = "ok")
       => DOMAIN StoredData(vaultFile').credentials
            = DOMAIN inst[last'.p].data.credentials \cup {last'.arg.name}]_vars

\* Both processes loaded the unlocked vault, p1 added "a" and sealed it, p2 added
\* "b" and sealed it, and the envelope holds "b" alone.
C9_Witness ==
    /\ last.op = "add_credential" /\ last.res = "ok" /\ last.p = "p2" /\ last.arg.name = "b"
    /\ ~IsNone(inst["p1"].encrypted_data)
    /\ DOMAIN ParseVaultData(Val(inst["p1"].encrypted_data).pt).credentials = {"a"}
    /\ DOMAIN inst["p1"].data.credentials = {"a"}
    /\ DOMAIN StoredData(vaultFile).credentials = {"b"}

\* C10: is_session_active() returns True at the instant of create_session();
\* returns False whenever more than SESSION_LIFESPAN seconds have passed since
\* the create_session() that wrote the file; and, having returned False with the
\* session file present, returns False again until the next create_session().
C10_SessionExpiry ==
    [][(last'.op = "is_session_active" /\ now' = now)
       => /\ sessionStart = Some(now) => last'.res = "True"
          /\ (~IsNone(sessionStart) /\ now - Val(sessionStart) > SESSION_LIFESPAN)
               => last'.res = "False"
          /\ (last.op = "is_session_active" /\ last.res = "False" /\ ~IsNone(sessionFile))
               => last'.res = "False"]_vars

C10_Witness ==
    /\ last.op = "is_session_active" /\ last.res = "False"
    /\ ~IsNone(sessionStart)
    /\ now - Val(sessionStart) > SESSION_LIFESPAN

\* C11: is_session_active() returns True only if the record has unlocked = true
\* and fewer than SESSION_LIFESPAN seconds have passed since its timestamp; it
\* returns False whenever SESSION_LIFESPAN seconds or more have passed, exactly
\* SESSION_LIFESPAN seconds included.
C11_StrictLifespan ==
    [][(last'.op = "is_session_active" /\ now' = now)
       => /\ last'.res = "True"
               => (/\ ~IsNone(sessionFile)
                   /\ Val(sessionFile)[2].unlocked = JBool(TRUE)
                   /\ now - Val(sessionStart) < SESSION_LIFESPAN)
          /\ (~IsNone(sessionStart) /\ now - Val(sessionStart) >= SESSION_LIFESPAN)
               => last'.res = "False"]_vars

\* A well-formed session record: a JSON object with exactly the
\* fields unlocked (a boolean) and timestamp (an ISO-8601 string).
WellFormedSession(j) ==
    /\ j[1] = "obj"
    /\ DOMAIN j[2] = {"unlocked", "timestamp"}
    /\ j[2].unlocked[1] = "bool"
    /\ j[2].timestamp[1] = "str"
    /\ ~IsNone(fromisoformat(j[2].timestamp[2]))

\* C12: is_session_active() never raises; it returns False when the session
\* file is absent or its content is not a well-formed record; and it returns
\* True only if the record is present, well-formed, has unlocked = true and is
\* no older than SESSION_LIFESPAN.
C12_NeverRaises ==
    [][(last'.op = "is_session_active" /\ now' = now)
       => /\ last'.res \in {"True", "False"}
          /\ (IsNone(sessionFile) \/ ~WellFormedSession(Val(sessionFile)))
               => last'.res = "False"
          /\ last'.res = "True"
               => (/\ Val(sessionFile)[2].unlocked = JBool(TRUE)
                   /\ now - Val(fromisoformat(Val(sessionFile)[2].timestamp[2]))
                        <= SESSION_LIFESPAN)]_vars

\* C13: while write_secure_file is between its open() and its closing chmod (the
\* file is being written, or holds what was written), the file's mode is 0600:
\* no group or other bit is set, also when the call created the file.
C13_ModeWhileWriting ==
    \A p \in Procs :
        (pend[p].op = "write_secure_file" /\ pend[p].pc \in {45, 47})
            => (~IsNone(path) /\ Val(path).mode = OwnerReadWrite)

\* C14: after any sequence of completed vault and session operations, each of
\* VAULT_FILE, KEY_CACHE_FILE and SESSION_FILE that exists has mode 0400, the
\* mode read_secure_file and write_secure_file leave a file with.
C14_ModeAtRest ==
    /\ (IsNone(vaultFile) <=> IsNone(mode.vault))
    /\ (IsNone(keyFile) <=> IsNone(mode.key))
    /\ (IsNone(sessionFile) <=> IsNone(mode.session))
    /\ \A f \in DOMAIN mode : ~IsNone(mode[f]) => Val(mode[f]) = OwnerRead

C14_Witness ==
    /\ ~IsNone(vaultFile) /\ ~IsNone(keyFile) /\ ~IsNone(sessionFile)
    /\ last.op = "load" /\ last.res = "ok"
    /\ DOMAIN inst["p1"].data.credentials # {}

\* C15: create(P), on any Vault object after any calls, writes an envelope whose
\* salt and nonce were never drawn before and whose ciphertext opens under
\* derive_key(P, that salt) to the empty VaultData.
C15_CreateEmpty ==
    [][(VaultCall /\ last'.op = "create")
       => LET env == Val(vaultFile')
          IN /\ last'.res = "ok"
             /\ env.salt > urandom /\ env.nonce > urandom /\ env.salt # env.nonce
             /\ DecryptData(DeriveKey(last'.arg, env.salt), env.nonce, env.ct)
                  = Some(EmptyVaultData)]_vars

\* C16: create() writes the envelope and leaves the cached key as it was; with no
\* key cached, a load(raise_no_key=True) that follows the create raises
\* ValueError, no add_*, delete_* or update_* succeeds, and a key gets cached only
\* by a successful unlock with the password the envelope was created with.
C16_CreateLeavesSealed ==
    [][VaultCall
       => /\ last'.op = "create" => (keyFile' = keyFile /\ ~IsNone(vaultFile'))
          /\ (last.op = "create" /\ IsNone(keyFile) /\ last'.op = "load" /\ last'.arg = TRUE)
               => last'.res = "ValueError"
          /\ (IsNone(keyFile) /\ last'.op \in MutatingOps) => last'.res # "ok"
          /\ (IsNone(keyFile) /\ ~IsNone(keyFile'))
               => (/\ last'.op = "unlock" /\ last'.res = "ok"
                   /\ last'.arg = createdWith[Val(vaultFile).salt])]_vars

C16_Witness ==
    /\ last.op = "load" /\ last.arg = TRUE /\ last.res = "ValueError"
    /\ IsNone(keyFile)
    /\ ~IsNone(vaultFile) /\ StoredData(vaultFile) = EmptyVaultData
    /\ inst["p1"].encrypted_data = Some(Val(vaultFile).ct)

\* The Vault object holds the three parts of the envelope env.
HoldsEnvelope(v, env) ==
    /\ v.salt = Some(env.salt)
    /\ v.nonce = Some(env.nonce)
    /\ v.encrypted_data = Some(env.ct)

\* C17 as stated: load(raise_no_key) of an envelope splits it into salt, nonce
\* and ciphertext; with a cached key it succeeds with VaultData equal to the
\* decrypted document; with no key it raises ValueError when raise_no_key is
\* true, and otherwise returns with VaultData empty.
C17_LoadAsClaimed ==
    [][(VaultCall /\ last'.op = "load" /\ ~IsNone(vaultFile))
       => LET p == last'.p
              env == Val(vaultFile)
          IN /\ HoldsEnvelope(inst'[p], env)
             /\ ~IsNone(keyFile)
                  => (last'.res = "ok" /\ inst'[p].data = StoredData(vaultFile))
             /\ (IsNone(keyFile) /\ last'.arg = TRUE) => last'.res = "ValueError"
             /\ (IsNone(keyFile) /\ last'.arg = FALSE)
                  => (last'.res = "ok" /\ inst'[p].data = EmptyVaultData)]_vars

\* C17, amended: load(raise_no_key) of an envelope splits it into salt, nonce and
\* ciphertext; with a cached key that opens the ciphertext it succeeds with
\* VaultData equal to the decrypted document; with a cached key that does not,
\* it raises InvalidTag; with no key it raises ValueError when raise_no_key is
\* true and returns otherwise; in the last three cases VaultData is left as it
\* was (empty on a new Vault object).
C17_Load ==
    [][(VaultCall /\ last'.op = "load" /\ ~IsNone(vaultFile))
       => LET p == last'.p
              env == Val(vaultFile)
              opens == /\ ~IsNone(keyFile)
                       /\ ~IsNone(AesGcmDecrypt(Val(keyFile), env.nonce, env.ct))
          IN /\ HoldsEnvelope(inst'[p], env)
             /\ opens => (last'.res = "ok" /\ inst'[p].data = StoredData(vaultFile))
             /\ (~IsNone(keyFile) /\ ~opens)
                  => (last'.res = "InvalidTag" /\ inst'[p].data = inst[p].data)
             /\ (IsNone(keyFile) /\ last'.arg = TRUE)
                  => (last'.res = "ValueError" /\ inst'[p].data = inst[p].data)
             /\ (IsNone(keyFile) /\ last'.arg = FALSE)
                  => (last'.res = "ok" /\ inst'[p].data = inst[p].data)
             /\ (IsNone(keyFile) /\ inst[p] = NewVault) => inst'[p].data = EmptyVaultData
             /\ vaultFile' = vaultFile /\ keyFile' = keyFile]_vars

C17_Witness ==
    /\ last.op = "load" /\ last.res = "ok" /\ last.arg = TRUE
    /\ ~IsNone(keyFile)
    /\ DOMAIN inst["p1"].data.aliases # {}
    /\ inst["p1"].data = StoredData(vaultFile)
    /\ HoldsEnvelope(inst["p1"], Val(vaultFile))

\* C18: lock() succeeds, leaves no cached key and changes nothing else: not the
\* Vault object (its VaultData included), not the envelope; with no key cached
\* it changes nothing at all; and a load(raise_no_key=True) of the envelope
\* that follows a lock() raises ValueError.
C18_LockOnlyKey ==
    [][VaultCall
       => /\ last'.op = "lock"
               => (/\ last'.res = "ok"
                   /\ IsNone(keyFile')
                   /\ inst' = inst /\ vaultFile' = vaultFile
                   /\ mode'.vault = mode.vault
                   /\ IsNone(keyFile) => (keyFile' = keyFile /\ mode' = mode))
          /\ (last.op = "lock" /\ last'.op = "load" /\ last'.arg = TRUE /\ ~IsNone(vaultFile))
               => last'.res = "ValueError"]_vars

C18_Witness ==
    /\ last.op = "lock" /\ last.res = "ok"
    /\ IsNone(keyFile)
    /\ ~IsNone(vaultFile)
    /\ DOMAIN inst["p1"].data.credentials # {}
    /\ inst["p1"].data = StoredData(vaultFile)

\* C19: unlock(P) with the password of the envelope the Vault object holds,
\* while the key derived from P is the cached key, succeeds and changes nothing:
\* the cached key is the same key, and the Vault object (its VaultData included)
\* and the envelope are as before.
C19_UnlockIdempotent ==
    [][(/\ VaultCall /\ last'.op = "unlock"
        /\ ~IsNone(inst[last'.p].salt)
        /\ createdWith[Val(inst[last'.p].salt)] = last'.arg
        /\ keyFile = Some(DeriveKey(last'.arg, Val(inst[last'.p].salt))))
       => (/\ last'.res = "ok"
           /\ keyFile' = keyFile
           /\ inst' = inst
           /\ vaultFile' = vaultFile
           /\ mode' = mode)]_vars

\* create, unlock, a successful add_credential, and unlock again.
C19_Witness ==
    /\ calls = 4
    /\ last.op = "unlock" /\ last.res = "ok"
    /\ DOMAIN inst["p1"].data.credentials # {}
    /\ inst["p1"].data = StoredData(vaultFile)
    /\ keyFile = Some(DeriveKey(last.arg, Val(vaultFile).salt))

\* C20: over all operations of the Vault and of the session manager, the cached
\* key file is written only by a successful unlock and removed only by lock;
\* every other call (create, load, exists, add_*, delete_*, update_*,
\* create_session, end_session, is_session_active, a failed unlock) leaves it
\* as it was; and the envelope consists of salt, nonce and ciphertext, the
\* sealed document of credentials and aliases: the key is no part of either.
C20_KeyOwnership ==
    [][/\ keyFile' # keyFile
            => \/ last'.op = "unlock" /\ last'.res = "ok" /\ ~IsNone(keyFile')
               \/ last'.op = "lock" /\ IsNone(keyFile')
       /\ (last' # last /\ ~(last'.op = "unlock" /\ last'.res = "ok") /\ last'.op # "lock")
            => (keyFile' = keyFile /\ mode'.key = mode.key)
       /\ ~IsNone(vaultFile')
            => (/\ DOMAIN Val(vaultFile') = {"salt", "nonce", "ct"}
                /\ Val(vaultFile').salt \in 1..urandom'
                /\ Val(vaultFile').nonce \in 1..urandom'
                /\ DOMAIN Val(vaultFile').ct.pt[2] = {"credentials", "aliases"}
                /\ Val(vaultFile').ct.pt
                     = model_dump_json(ParseVaultData(Val(vaultFile').ct.pt)))]_vars

C20_Witness ==
    /\ ~IsNone(keyFile)
    /\ last.op = "end_session"
    /\ ~IsNone(vaultFile)
    /\ DOMAIN StoredData(vaultFile).credentials # {}
    /\ inst["p1"].data = StoredData(vaultFile)

\* C21: no operation of the session manager, and no passing of time, changes
\* the cached key, the envelope or a Vault object; no Vault operation changes
\* the session file or what is_session_active() would return; when a session
\* runs out, a load() on a new Vault object does what it did before; and the
\* cached key goes away only in lock().
C21_Independent ==
    [][/\ calls' = calls
            => (/\ keyFile' = keyFile /\ vaultFile' = vaultFile /\ inst' = inst
                /\ mode'.key = mode.key /\ mode'.vault = mode.vault)
       /\ VaultCall
            => (/\ sessionFile' = sessionFile /\ mode'.session = mode.session
                /\ IsSessionActive(sessionFile', now') = IsSessionActive(sessionFile, now))
       /\ (IsSessionActive(sessionFile, now) = "True" /\ IsSessionActive(sessionFile', now') = "False")
            => LoadOutcome(NewVault, vaultFile', keyFile', TRUE)
                 = LoadOutcome(NewVault, vaultFile, keyFile, TRUE)
       /\ (~IsNone(keyFile) /\ IsNone(keyFile')) => last'.op = "lock"]_vars

\* The session has run out, the key is still cached, and a load() has decrypted
\* the envelope.
C21_Witness ==
    /\ ~IsNone(sessionStart) /\ now - Val(sessionStart) > SESSION_LIFESPAN
    /\ IsSessionActive(sessionFile, now) = "False"
    /\ ~IsNone(keyFile)
    /\ last.op = "load" /\ last.res = "ok"
    /\ DOMAIN inst["p1"].data.credentials # {}

\* C22: every creds / alias command begins with is_session_active(); when that
\* returns False the command ends there with status 1: no Vault call is made,
\* and the envelope, the cached key and the Vault object are as before.
C22_SessionGate ==
    [][cmd'.n = cmd.n + 1
       => /\ cmd.at = "exit"
          /\ last'.op = "is_session_active"
          /\ last'.res = IsSessionActive(sessionFile, now)
          /\ calls' = calls /\ vaultFile' = vaultFile /\ keyFile' = keyFile /\ inst' = inst
          /\ mode'.vault = mode.vault /\ mode'.key = mode.key
          /\ last'.res = "False" => (cmd'.at = "exit" /\ cmd'.code = 1)]_vars

\* A command that found the session run out, on an unlocked vault holding a
\* record.
C22_Witness ==
    /\ cmd.at = "exit" /\ cmd.code = 1 /\ cmd.name = "creds delete"
    /\ last.op = "is_session_active" /\ last.res = "False"
    /\ ~IsNone(sessionFile)
    /\ ~IsNone(keyFile)
    /\ cmd.arg \in DOMAIN StoredData(vaultFile).credentials

\* C23: delete_credential / delete_alias of a name that is not in the mapping
\* raises KeyError and changes neither the VaultData nor the envelope; of a name
\* that is in the mapping, on an unlocked vault, it returns, takes exactly that
\* record out of the VaultData and seals the result into the envelope; a get of
\* the name that follows returns None and a delete of it that follows raises
\* KeyError.
C23_Delete ==
    [][VaultCall
       => LET c == last'
              p == c.p
              isDelete == c.op \in {"delete_credential", "delete_alias"}
              before == Mapping(inst[p].data, c.op)
              deleted == /\ last.op \in {"delete_credential", "delete_alias"}
                         /\ last.res = "ok" /\ last.p = p
          IN /\ (isDelete /\ c.arg \notin DOMAIN before)
                  => (c.res = "KeyError" /\ inst' = inst /\ vaultFile' = vaultFile)
             /\ (isDelete /\ c.arg \in DOMAIN before /\ ~IsNone(keyFile))
                  => /\ c.res = "ok"
                     /\ inst'[p].data = IF c.op = "delete_credential"
                                        THEN [inst[p].data EXCEPT !.credentials = Pop(before, c.arg)]
                                        ELSE [inst[p].data EXCEPT !.aliases = Pop(before, c.arg)]
                     /\ DOMAIN Mapping(inst'[p].data, c.op) = DOMAIN before \ {c.arg}
                     /\ StoredData(vaultFile') = inst'[p].data
             /\ (deleted /\ c.op = (IF last.op = "delete_credential" THEN "get_credential"
                                                                     ELSE "get_alias")
                 /\ c.arg = last.arg)
                  => (c.res = "ok" /\ ret' = None)
             /\ (deleted /\ c.op = last.op /\ c.arg = last.arg) => c.res = "KeyError"]_vars

\* A delete of a name just deleted, on an unlocked vault that still holds
\* another record.
C23_Witness ==
    /\ last.op = "delete_credential" /\ last.res = "KeyError"
    /\ ~IsNone(keyFile)
    /\ StoredData(vaultFile) = inst["p1"].data
    /\ last.arg \notin DOMAIN inst["p1"].data.credentials
    /\ DOMAIN inst["p1"].data.credentials # {}
    /\ last.arg \in DOMAIN inst["p1"].data.aliases

\* C24: update_credential / update_alias of a name that is not in the mapping
\* raises KeyError, whatever the descriptor carries (a new_name included), and
\* changes neither the Vault object nor the envelope file; an update that
\* returns, or after which the envelope differs, had its target in the mapping.
C24_UpdateAbsent ==
    [][(VaultCall /\ last'.op \in {"update_credential", "update_alias"})
       => LET c == last'
              present == c.arg.name \in DOMAIN Mapping(inst[c.p].data, c.op)
          IN /\ ~present => (/\ c.res = "KeyError"
                             /\ inst' = inst /\ vaultFile' = vaultFile
                             /\ mode'.vault = mode.vault)
             /\ (c.res = "ok" \/ vaultFile' # vaultFile) => present]_vars

\* An update with a new_name whose target is not there, on an unlocked vault
\* that holds the new name.
C24_Witness ==
    /\ last.op = "update_alias" /\ last.res = "KeyError"
    /\ "new_name" \in DOMAIN last.arg.kw
    /\ ~IsNone(keyFile)
    /\ last.arg.name \notin DOMAIN inst["p1"].data.aliases
    /\ Val(last.arg.kw.new_name) \in DOMAIN inst["p1"].data.aliases
    /\ StoredData(vaultFile) = inst["p1"].data

\* C25: after a successful update_credential / update_alias the target record
\* holds, for every field the descriptor was given, exactly the value given,
\* the empty string and the empty list included, and its name field is the
\* name it is stored under, which is new_name when one was given; the envelope
\* holds the same record.
C25_FieldsVerbatim ==
    [][(VaultCall /\ last'.op \in {"update_credential", "update_alias"} /\ last'.res = "ok")
       => LET c == last'
              kw == c.arg.kw
              t == IF "new_name" \in DOMAIN kw THEN Val(kw.new_name) ELSE c.arg.name
              after == Mapping(inst'[c.p].data, c.op)
          IN /\ t \in DOMAIN after
             /\ after[t].name = t
             /\ \A f \in DOMAIN kw \ {"new_name"} :
                   after[t][f] = IF f \in {"notes", "tags"} THEN kw[f] ELSE Val(kw[f])
             /\ Mapping(StoredData(vaultFile'), c.op)[t] = after[t]]_vars

\* A record renamed and given the empty value in every field.
C25_Witness ==
    /\ last.op = "update_credential" /\ last.res = "ok"
    /\ last.arg.name = "a"
    /\ DOMAIN last.arg.kw = {"new_name", "username", "password", "notes", "tags"}
    /\ "b" \in DOMAIN inst["p1"].data.credentials
    /\ inst["p1"].data.credentials["b"] = Credential("b", "", "", Some(""), Some(<<>>))
    /\ StoredData(vaultFile).credentials["b"] = Credential("b", "", "", Some(""), Some(<<>>))

\* The names of a mapping after a call: a successful add puts its name in, a
\* successful delete takes its name out, a successful update with new_name takes
\* the old name out and puts the new one in, and no other call changes them.
NamesAfter(names, c) ==
    IF c.res # "ok" THEN names
    ELSE CASE c.op \in {"add_credential", "add_alias"} -> names \cup {c.arg.name}
           [] c.op \in {"delete_credential", "delete_alias"} -> names \ {c.arg}
           [] c.op \in {"update_credential", "update_alias"} ->
                IF "new_name" \in DOMAIN c.arg.kw
                THEN (names \ {c.arg.name}) \cup {Val(c.arg.kw.new_name)}
                ELSE names
           [] OTHER -> names

\* C26: on a vault that was created and unlocked, every call either succeeds or
\* raises KeyError; the names of each mapping are those added and not since
\* deleted or renamed away; and list_credentials / list_aliases returns, never
\* raises, and returns one record for each of those names and no other record:
\* nothing when there is no name.
C26_ListAll ==
    [][VaultCall
       => LET c == last'
              p == c.p
              creds == inst[p].data.credentials
              aliases == inst[p].data.aliases
              listed == IF c.op = "list_credentials" THEN creds ELSE aliases
          IN /\ c.res \in {"ok", "KeyError"}
             /\ DOMAIN inst'[p].data.credentials
                  = IF c.op \in CredentialOps THEN NamesAfter(DOMAIN creds, c) ELSE DOMAIN creds
             /\ DOMAIN inst'[p].data.aliases
                  = IF c.op \in MutatingOps \ CredentialOps THEN NamesAfter(DOMAIN aliases, c)
                    ELSE DOMAIN aliases
             /\ c.op \in {"list_credentials", "list_aliases"}
                  => /\ c.res = "ok"
                     /\ ~IsNone(ret')
                     /\ {r.name : r \in DOMAIN Val(ret')} = DOMAIN listed
                     /\ \A r \in DOMAIN Val(ret') : Val(ret')[r] = 1 /\ r = listed[r.name]
                     /\ Cardinality(DOMAIN Val(ret')) = Cardinality(DOMAIN listed)]_vars

\* A list of two records, one of them renamed before.
C26_Witness ==
    /\ last.op = "list_credentials" /\ last.res = "ok"
    /\ ~IsNone(ret)
    /\ Cardinality(DOMAIN Val(ret)) = 2
    /\ \E r \in DOMAIN Val(ret) : r.name = "b" /\ r.notes = Some("")

\* A list of a vault from which every record was deleted.
C26_WitnessEmpty ==
    /\ last.op = "list_aliases" /\ last.res = "ok"
    /\ ret = Some(ListOfValues(EmptyDict))
    /\ calls >= 3
    /\ DOMAIN inst["p1"].data.credentials # {}

\* C27: get_credential / get_alias never raises: it returns the record stored
\* under the name, which right after a successful add of that name is the
\* record that was added, and None when the name is not in the mapping; and no
\* get_* or list_* call changes the Vault object, the cached key, the envelope
\* or the mode of a file.
C27_GetAndListRead ==
    [][(VaultCall /\ last'.op \in {"get_credential", "get_alias", "list_credentials", "list_aliases"})
       => LET c == last'
              p == c.p
              isGet == c.op \in {"get_credential", "get_alias"}
              m == IF c.op = "get_credential" THEN inst[p].data.credentials
                                              ELSE inst[p].data.aliases
              added == /\ last.op = (IF c.op = "get_credential" THEN "add_credential"
                                                                 ELSE "add_alias")
                       /\ last.res = "ok" /\ last.p = p
          IN /\ c.res = "ok"
             /\ inst' = inst /\ keyFile' = keyFile /\ vaultFile' = vaultFile
             /\ mode' = mode /\ urandom' = urandom
             /\ (isGet /\ c.arg \in DOMAIN m) => ret' = Some(m[c.arg])
             /\ (isGet /\ c.arg \notin DOMAIN m) => ret' = None
             /\ (isGet /\ added /\ last.arg.name = c.arg) => ret' = Some(last.arg)]_vars

\* A get that returned the record just added, on an unlocked vault.
C27_Witness ==
    /\ last.op = "get_alias" /\ last.res = "ok"
    /\ ret = Some(Alias("b", "echo", Some("note"), Some(<<"tag">>)))
    /\ ~IsNone(keyFile)
    /\ StoredData(vaultFile).aliases = inst["p1"].data.aliases
    /\ DOMAIN inst["p1"].data.credentials # {}

\* A get of a name that is not there.
C27_WitnessAbsent ==
    /\ last.op = "get_credential" /\ last.res = "ok" /\ ret = None
    /\ DOMAIN inst["p1"].data.credentials = {"a"}
    /\ last.arg = "b"

\* C28: a call of add_credential, delete_credential or update_credential,
\* whatever its outcome, leaves the aliases of the VaultData as they are, and a
\* call of add_alias, delete_alias or update_alias the credentials; an envelope
\* that held the other mapping as it is in memory holds it unchanged after the
\* call; and on an unlocked vault an add of a name that is free in its own
\* mapping succeeds whether or not the other mapping holds that name.
C28_Namespaces ==
    [][(VaultCall /\ last'.op \in MutatingOps)
       => LET c == last'
              p == c.p
              Other(d) == IF c.op \in CredentialOps THEN d.aliases ELSE d.credentials
          IN /\ Other(inst'[p].data) = Other(inst[p].data)
             /\ Other(StoredData(vaultFile)) = Other(inst[p].data)
                  => Other(StoredData(vaultFile')) = Other(StoredData(vaultFile))
             /\ (/\ c.op \in {"add_credential", "add_alias"}
                 /\ c.arg.name \notin DOMAIN Mapping(inst[p].data, c.op)
                 /\ ~IsNone(keyFile))
                  => c.res = "ok"]_vars

\* A credential added under the name of an alias, the alias as it was.
C28_Witness ==
    /\ last.op = "add_credential" /\ last.res = "ok"
    /\ last.arg.name \in DOMAIN inst["p1"].data.aliases
    /\ inst["p1"].data.aliases[last.arg.name] \in Aliases
    /\ inst["p1"].data.credentials[last.arg.name] = last.arg
    /\ StoredData(vaultFile) = inst["p1"].data

\* C29: a ciphertext made by _encrypt_data from a VaultData D with the key
\* derived from password P and a salt, under a nonce, is decrypted with the key
\* derived from the same password and salt, under the same nonce, to a VaultData
\* equal to D; with the key derived from another password or another salt the
\* decryption raises InvalidTag and no document is decoded.
C29_RoundTrip ==
    last.op = "_decrypt_data"
    => LET sealer == inst["p1"]
           opener == inst[last.p]
           same == /\ last.arg.salt = Val(sealer.salt)
                   /\ last.arg.password = createdWith[Val(sealer.salt)]
       IN /\ same => (last.res = "ok" /\ opener.data = sealer.data)
          /\ ~same => (last.res = "InvalidTag" /\ opener.data = EmptyVaultData)

\* A VaultData with a record of unset tags and empty notes and a record of
\* empty tags, sealed and opened again.
C29_Witness ==
    /\ last.op = "_decrypt_data" /\ last.res = "ok"
    /\ inst["p2"].data = inst["p1"].data
    /\ DOMAIN inst["p2"].data.credentials = Names
    /\ inst["p2"].data.credentials["a"].tags = None
    /\ inst["p2"].data.credentials["a"].notes = Some("")
    /\ inst["p2"].data.credentials["b"].notes = None
    /\ DOMAIN inst["p2"].data.aliases = {"b"}
    /\ inst["p2"].data.aliases["b"].tags = Some(<<>>)

\* The same ciphertext under a key derived from the same password and another
\* salt.
C29_WitnessOtherSalt ==
    /\ last.op = "_decrypt_data" /\ last.res = "InvalidTag"
    /\ last.arg.password = createdWith[Val(inst["p1"].salt)]
    /\ last.arg.salt # Val(inst["p1"].salt)
    /\ DOMAIN inst["p1"].data.credentials # {}

C30_WitnessEmpty ==
    /\ last.op = "exists" /\ last.res = "False"
    /\ vaultFile = Some(EmptyFile)

\* exists() is True on an unlocked vault with an active session.
C30_WitnessUnlocked ==
    /\ last.op = "exists" /\ last.res = "True"
    /\ ~IsNone(keyFile)
    /\ IsSessionActive(sessionFile, now) = "True"

\* C31: a call of is_session_active() leaves the session file as it is: not
\* created, not deleted, its unlocked flag and its timestamp unchanged; so at
\* every instant the check gives after the call what it would have given
\* before it.
C31_PureRead ==
    [][(last'.op = "is_session_active" /\ now' = now)
       => /\ sessionFile' = sessionFile
          /\ sessionStart' = sessionStart
          /\ IsNone(mode'.session) <=> IsNone(mode.session)
          /\ \A t \in Instants : IsSessionActive(sessionFile', t) = IsSessionActive(sessionFile, t)]_vars

\* A check that found the session active at the last second of its life.
C31_Witness ==
    /\ last.op = "is_session_active" /\ last.res = "True"
    /\ ~IsNone(sessionStart)
    /\ now - Val(sessionStart) = SESSION_LIFESPAN
    /\ sessionFile = Some(SessionJson(Val(sessionStart)))

\* C32: on the file as it is in any reachable state: a read of a missing path
\* returns None, raises nothing and leaves the path missing; a delete of a
\* missing path returns and leaves it missing; a write of b followed by a read
\* returns b; a delete followed by a read returns None.  And in the calls as
\* they ran: a read that has returned has returned the file's content, or None
\* with the path missing; a write of b that has returned has left the file
\* holding b; a delete that has returned has left the path missing.
C32_SecureFileContract ==
    /\ IsNone(path)
         => /\ read_secure_file(path, umask) = Ret(None, None, "ok")
            /\ delete_secure_file(path, umask) = Ret(None, None, "ok")
    /\ \A b \in FileContents :
          LET w == write_secure_file(path, b, umask)
              r == read_secure_file(w.f, umask)
          IN w.res = "ok" /\ r.res = "ok" /\ r.buf = Some(b)
    /\ LET d == delete_secure_file(path, umask)
           r == read_secure_file(d.f, umask)
       IN d.res = "ok" /\ IsNone(d.f) /\ r.res = "ok" /\ r.buf = None /\ IsNone(r.f)
    /\ (pend["p1"].pc = 0 /\ last.res # "called")
         => /\ last.res = "ok"
            /\ last.op = "read_secure_file"
                 => pend["p1"].buf = IF IsNone(path) THEN None ELSE Some(Val(path).data)
            /\ last.op = "write_secure_file"
                 => (~IsNone(path) /\ Val(path).data = last.arg)
            /\ last.op = "delete_secure_file" => IsNone(path)

\* A read that returned the bytes written over other bytes.
C32_Witness ==
    /\ pend["p1"].pc = 0
    /\ last.op = "read_secure_file" /\ last.res = "ok"
    /\ pend["p1"].buf = Some("k2")
    /\ path = File(OwnerRead, "k2")

\* A read of a path that a delete has removed.
C32_WitnessAbsent ==
    /\ pend["p1"].pc = 0
    /\ last.op = "read_secure_file" /\ last.res = "ok"
    /\ pend["p1"].buf = None
    /\ IsNone(path)

\* C33: an update_credential / update_alias call, with or without new_name,
\* leaves every record other than its target in the mapping and unchanged, and
\* the mapping with as many records as before.
C33_RenameKeepsOthers ==
    [][(VaultCall /\ last'.op \in {"update_credential", "update_alias"})
       => LET c == last'
              before == Mapping(inst[c.p].data, c.op)
              after == Mapping(inst'[c.p].data, c.op)
          IN /\ \A k \in DOMAIN before \ {c.arg.name} :
                   k \in DOMAIN after /\ after[k] = before[k]
             /\ Cardinality(DOMAIN after) = Cardinality(DOMAIN before)]_vars

\* C34: whenever a key is cached and an envelope is on disk, the cached key is
\* the key the envelope is sealed under: a load() by a new Vault object succeeds.
C34_CachedKeyOpens ==
    (~IsNone(keyFile) /\ ~IsNone(vaultFile))
    => /\ Val(vaultFile).ct.key = Val(keyFile)
       /\ LoadOutcome(NewVault, vaultFile, keyFile, TRUE).res = "ok"

\* C35: the envelope on disk is sealed under the key derived from the password
\* of the create that drew the envelope's salt (the most recent create) and
\* that salt.
C35_OpensWithCreatePassword ==
    ~IsNone(vaultFile)
    => LET env == Val(vaultFile)
       IN ~IsNone(AesGcmDecrypt(DeriveKey(createdWith[env.salt], env.salt), env.nonce, env.ct))

\* C36: a read_secure_file that another process's write_secure_file overlaps
\* returns the whole content the file had before the write or the whole
\* content written, never the content of a truncated file.
C36_WholeEnvelope ==
    [][(pend["p2"].pc # 0 /\ pend'["p2"].pc = 0)
       => /\ last'.res = "ok"
          /\ pend'["p2"].buf \in {Some(d) : d \in FileContents}]_vars

\* C37: a write_secure_file on a file that exists returns normally, whatever
\* lines of another process's read_secure_file run between its lines.
C37_WriterNeverFails ==
    [][(pend["p1"].pc # 0 /\ pend'["p1"].pc = 0) => last'.res = "ok"]_vars

\* C38: a step that writes a value to the key cache is a successful unlock, and
\* the value is the key derived from the password given and the salt of the
\* Vault object, which decrypts the ciphertext the object holds under the
\* object's nonce; an unlock that does not succeed leaves the key cache as it
\* is; and unlock on a Vault object that has neither loaded nor created an
\* envelope raises and leaves the key cache as it is.
C38_UnlockValidates ==
    [][/\ (keyFile' # keyFile /\ ~IsNone(keyFile'))
            => (VaultCall /\ last'.op = "unlock" /\ last'.res = "ok")
       /\ (VaultCall /\ last'.op = "unlock")
            => LET v == inst[last'.p]
               IN /\ last'.res = "ok"
                       => /\ ~IsNone(v.salt) /\ ~IsNone(v.nonce) /\ ~IsNone(v.encrypted_data)
                          /\ keyFile' = Some(DeriveKey(last'.arg, Val(v.salt)))
                          /\ ~IsNone(AesGcmDecrypt(Val(keyFile'), Val(v.nonce),
                                                   Val(v.encrypted_data)))
                  /\ last'.res # "ok" => keyFile' = keyFile
                  /\ v = NewVault => last'.res # "ok"]_vars

\* An unlock on a new Vault object failed and left a cached key as it was.
C38_Witness ==
    /\ last.op = "unlock" /\ last.res = "TypeError"
    /\ inst[last.p] = NewVault
    /\ ~IsNone(keyFile)
    /\ ~IsNone(vaultFile)

\* An unlock of a loaded vault cached the envelope's key.
C38_WitnessUnlocked ==
    /\ last.op = "unlock" /\ last.res = "ok"
    /\ ~IsNone(vaultFile) /\ ~IsNone(keyFile)
    /\ Val(vaultFile).ct.key = Val(keyFile)
    /\ HoldsEnvelope(inst[last.p], Val(vaultFile))

\* The name field of every record of the VaultData d is the key it is stored under.
NamesAreKeys(d) ==
    /\ \A k \in DOMAIN d.credentials : d.credentials[k].name = k
    /\ \A k \in DOMAIN d.aliases : d.aliases[k].name = k

\* C39: in every state, every record of every Vault object's credentials and
\* aliases has as its name field the key it is stored under, and so has every
\* record of the envelope on disk.
C39_NamesAreKeys ==
    /\ \A p \in Procs : NamesAreKeys(inst[p].data)
    /\ ~IsNone(vaultFile) => NamesAreKeys(StoredData(vaultFile))

\* A renamed record, read back from the envelope by load().
C39_Witness ==
    /\ last.op = "load" /\ last.res = "ok"
    /\ DOMAIN inst["p1"].data.credentials = {"b"}
    /\ inst["p1"].data.credentials["b"] = Credential("b", "user", "pass", Some(""), Some(<<"tag">>))
    /\ StoredData(vaultFile) = inst["p1"].data

\* C40: load() with no envelope file raises FileNotFoundError and leaves the
\* Vault object as it was: salt, nonce and ciphertext of a new object unset.
C40_LoadMissing ==
    [][(VaultCall /\ last'.op = "load" /\ IsNone(vaultFile))
       => /\ last'.res = "FileNotFoundError"
          /\ inst' = inst
          /\ inst[last'.p] = NewVault
               => (/\ IsNone(inst'[last'.p].salt) /\ IsNone(inst'[last'.p].nonce)
                   /\ IsNone(inst'[last'.p].encrypted_data))]_vars

\* What load() with no envelope file does: it raises, and the object is as it
\* was.
C40_LoadMissingRaises ==
    [][(VaultCall /\ last'.op = "load" /\ IsNone(vaultFile))
       => (last'.res # "ok" /\ inst' = inst /\ vaultFile' = vaultFile /\ keyFile' = keyFile)]_vars

====
